---- MODULE Spec2Model ----
(***************************************************************************)
(* Model of the IAP tunnel client (package iap): the tunnel session of     *)
(* tunnel.go (read loop, reader, writer, close), the frame codec of        *)
(* frame.go and the URL builder of iap-host.go.                            *)
(*                                                                         *)
(* A byte slice is modelled as [start, len]: `start` is the position of    *)
(* its first byte in the stream its bytes come from, so that copy() and    *)
(* re-slicing act on it as they act on a Go slice, and two slices hold the *)
(* same bytes exactly when the records are equal.                          *)
(***************************************************************************)
EXTENDS Integers, Sequences, FiniteSets, TLC

\* ------------------------------------------------------------- constants.go
RelayConnectSuccessSID == 1
RelayReconnectSuccessACK == 2
RelayData == 4
RelayACK == 7
MessageTagLen == 2
MessageLen == 4
DataMessageHeaderLen == MessageTagLen + MessageLen
ACKLen == 8
ACKHeaderLen == MessageTagLen + ACKLen
MaxMessageSize == 16384
ConnectPath == "/v4/connect"
ReconnectPath == "/v4/reconnect"
WebSocketProtocol == "wss"
IAPHostURL == "tunnel.cloudproxy.app"

\* capacity of the incoming channel, make(chan []byte, 1024)
IncomingCap == 1024
\* the log statements of handleData and DataFrame.Send slice the frame [:20]
LogPrefixLen == 20

\* ------------------------------------------------------------------ bounds
\* what the relay does on the connection, frames sent and read errors caused:
\* in the read-loop specification,
MaxEvents == 8
\* in the reader specification,
MaxEventsIO == 4
\* and in the writer specification
MaxEventsW == 3
\* dials the tunnel may perform (the first one and the reconnects)
MaxDials == 2
\* Read calls of the tunnel -> local pump
MaxReads == 3
\* Write calls of the local -> tunnel pump
MaxWrites == 1
\* in the bridge specification, what the relay does on the connection
MaxEventsB == 2
\* results of the listener's Accept
MaxAccepts == 6
\* in the full-queue specification, what the relay does on the connection: the
\* session id, the payloads that fill the queue and two more,
MaxEventsQ == 1027
\* and the Read calls
MaxReadsQ == 1
\* the first byte of the payloads the codec is tried on
MaxFirstByte == 5
\* in the supervisor specification, results of the listener's Accept
MaxAcceptsV == 2
\* in the raw-message specification, events of the relay
MaxEventsM == 3

\* ------------------------------------------------------- environment inputs
SIDs == {"S1", "S2"}
AckVals == {100}
UnknownTags == {0, 3, 9}
\* payload lengths of the DATA frames: the read-loop specification draws from
\* the ones that decide the ACK threshold, the reader's from short ones too
LoopDataLens == {1, MaxMessageSize}
DataLens == {0, 5, MaxMessageSize}
RestLens == {0, 3}
\* io.Copy reads with a 32 KiB buffer; smaller ones exercise the residual
BufLens == {2, 2 * MaxMessageSize}
\* lengths of the payloads handed to Write
WriteLens == {5, MaxMessageSize, MaxMessageSize + 100, 3 * MaxMessageSize + 7}
Conns == 1..MaxDials
NoConn == 0

VARIABLES
    ws,                       \* t.ws: the connection of the last dial, NoConn = nil
    sid,                      \* t.sid
    totalBytesReceived,       \* t.totalBytesReceived
    totalBytesReceivedAcked,  \* t.totalBytesReceivedAcked
    totalBytesConfirmed,      \* t.totalBytesConfirmed
    incoming,                 \* t.incoming: the buffered channel, a sequence of slices
    sending,                  \* the payload handleData is blocked sending to t.incoming
    msgBuffer,                \* t.msgBuffer: the residual slice
    closed,                   \* t.closed is closed
    ready,                    \* t.ready is closed
    ctxDone,                  \* the context passed to Start is cancelled
    loopPc,                   \* where the goroutine of start() is
    writerHeld,               \* per connection: the task holding its message writer
    dead,                     \* connections closed locally or broken
    dials,                    \* the URLs dialled, in order
    wire,                     \* the frames written to a WebSocket, in order
    arrived,                  \* number of DATA payload bytes received so far
    left,                     \* what the environment may still do
    rd,                       \* the pump calling Read
    reads,                    \* the result of the last Read call and the bytes returned so far
    wr,                       \* the pump calling Write
    writes,                   \* the result of the last Write call and the number of calls over
    fault,                    \* the runtime panic that ended the process, "" if none
    bridge,                   \* processConn: where it is, and its two byte pumps
    active,                   \* c.active
    lis,                      \* c.lis: the listener of the client, NoListener = nil
    serve,                    \* per Serve invocation: where it is and what it returned
    accepts,                  \* what the network did to the listener so far
    call,                     \* a call of the frame codec or the URL builder: input and result
    dry                       \* DryRun: where it is and what it returned

vars == <<ws, sid, totalBytesReceived, totalBytesReceivedAcked, totalBytesConfirmed,
          incoming, sending, msgBuffer, closed, ready, ctxDone, loopPc, writerHeld, dead,
          dials, wire, arrived, left, rd, reads, wr, writes, fault, bridge,
          active, lis, serve, accepts, call, dry>>

\* the variables of one tunnel and its pumps
sessionVars == <<ws, sid, totalBytesReceived, totalBytesReceivedAcked,
                 totalBytesConfirmed, incoming, sending, msgBuffer, closed, ready, loopPc,
                 writerHeld, dead, dials, wire, arrived, left, rd, reads, wr, writes>>

\* the variables of the client
clientVars == <<active, lis, serve, accepts>>

\* the calls made outside a session
callVars == <<call, dry>>

\* the variables outside a tunnel
outsideVars == <<bridge, clientVars, callVars>>

tunnelVars == <<sid, totalBytesReceived, totalBytesReceivedAcked, totalBytesConfirmed,
                incoming, sending, ready>>
readerVars == <<msgBuffer, rd, reads>>
writerVars == <<wr, writes>>

\* ------------------------------------------------------------------ helpers
Min(a, b) == IF a < b THEN a ELSE b

Last(s) == s[Len(s)]

EmptySlice == [start |-> 0, len |-> 0]

\* p[lo:] of a slice
SliceFrom(s, n) == [start |-> s.start + n, len |-> s.len - n]

\* p[:n] of a slice
SliceTo(s, n) == [start |-> s.start, len |-> n]

\* a - b > c on uint64: when b > a the difference wraps to 2^64 - (b - a),
\* which exceeds every c the bounded counters can give
U64SubGt(a, b, c) == IF a >= b THEN a - b > c ELSE TRUE

Running == fault = ""

\* -------------------------------------------------------------- iap-host.go
\* the target descriptor the tunnel is bound to
Host == [ProjectID |-> "proj", Zone |-> "zone-a", Instance |-> "vm",
         Interface |-> "nic0", Port |-> "22"]

\* strconv.FormatUint(n, 10): the decimal digits of n, most significant first
RECURSIVE FormatUint(_)
FormatUint(n) ==
    IF n < 10 THEN <<n>> ELSE Append(FormatUint(n \div 10), n % 10)

\* the keys the mapstructure tags of IAPHost and reconnectParams name, in the
\* byte order url.Values.Encode sorts them into
SortedKeys ==
    <<"ack", "instance", "interface", "newWebsocket", "port", "project", "sid", "zone">>

\* mapstructure.Decode of an IAPHost into map[string]string
hostParams(h) ==
    [k \in {"project", "zone", "instance", "interface", "port"} |->
        CASE k = "project" -> h.ProjectID
          [] k = "zone" -> h.Zone
          [] k = "instance" -> h.Instance
          [] k = "interface" -> h.Interface
          [] k = "port" -> h.Port]

\* the later revision of IAPHost: ConnectURI sets NewWebsocket to "True" before
\* the struct is decoded
hostParamsLater(h) ==
    [k \in {"project", "zone", "instance", "interface", "port", "newWebsocket"} |->
        CASE k = "project" -> h.ProjectID
          [] k = "zone" -> h.Zone
          [] k = "instance" -> h.Instance
          [] k = "interface" -> h.Interface
          [] k = "port" -> h.Port
          [] k = "newWebsocket" -> "True"]

\* the map mapstructure.Decode leaves empty when it rejects its input;
\* queryParams discards the error
NoParams == [k \in {} |-> ""]

\* mapstructure.Decode of a reconnectParams into map[string]string: Ack and
\* Sid are strconv.FormatUint of the two uint64 arguments
reconnectParams(h, s, ack) ==
    [k \in {"ack", "sid", "zone"} |->
        CASE k = "ack" -> FormatUint(ack)
          [] k = "sid" -> FormatUint(s)
          [] k = "zone" -> h.Zone]

\* the later revision of ReconnectURI: the session id is a string, the count
\* is formatted with fmt.Sprintf("%d", ack), and NewWebsocket is "True"
reconnectParamsLater(h, s, ack) ==
    [k \in {"ack", "sid", "zone", "newWebsocket"} |->
        CASE k = "ack" -> FormatUint(ack)
          [] k = "sid" -> s
          [] k = "zone" -> h.Zone
          [] k = "newWebsocket" -> "True"]

\* queryParams(src).Encode(): the key=value pairs sorted by key
queryParams(params) ==
    LET keys == SelectSeq(SortedKeys, LAMBDA k : k \in DOMAIN params)
    IN  [i \in 1..Len(keys) |-> <<keys[i], params[keys[i]]>>]

tunnelURI(path, params) ==
    [scheme |-> WebSocketProtocol, host |-> IAPHostURL, path |-> path,
     query |-> queryParams(params)]

ConnectURI(h) == tunnelURI(ConnectPath, hostParams(h))

ReconnectURI(h, s, ack) == tunnelURI(ReconnectPath, reconnectParams(h, s, ack))

\* the later revision of ConnectURI: tunnelURI(ConnectPath, &h) hands
\* mapstructure.Decode the address of the pointer receiver; `decoded` is
\* whether the library follows both pointers to the struct
ConnectURILater(h, decoded) ==
    tunnelURI(ConnectPath, IF decoded THEN hostParamsLater(h) ELSE NoParams)

ReconnectURILater(h, s, ack) ==
    tunnelURI(ReconnectPath, reconnectParamsLater(h, s, ack))

\* whether the query of URL u carries key k with value v
HasParam(u, k, v) ==
    \E i \in 1..Len(u.query) : u.query[i][1] = k /\ u.query[i][2] = v

\* ----------------------------------------------------------------- frame.go
\* An inbound WebSocket message, by what the accessors of IncomingFrame read
\* from it: the tag, the session id of a CONNECT_SUCCESS_SID body, the value of
\* an ACK body, the declared length of a DATA body and the number of bytes that
\* follow the declared payload. `at` is the stream position of its payload.
Frame(tag, s, ack, len, rest, at) ==
    [tag |-> tag, sid |-> s, ack |-> ack, len |-> len, rest |-> rest, at |-> at]

Type(f) == f.tag

SID(f) == f.sid

ACK(f) == f.ack

\* mutant of Data: everything that follows the header is the payload
DataWithRest(f) ==
    LET fullPayload == [start |-> f.at, len |-> f.len + f.rest]
    IN  <<fullPayload, SliceFrom(fullPayload, f.len + f.rest)>>

\* IncomingFrame.Data: fullPayload[:msgLen], fullPayload[msgLen:]
Data(f) ==
    LET fullPayload == [start |-> f.at, len |-> f.len + f.rest]
    IN  <<SliceTo(fullPayload, f.len), SliceFrom(fullPayload, f.len)>>

\* NewACKFrame: tag and value; `size` is len(frame), which make() also gives
\* as its capacity
NewACKFrame(inboundDataLen) ==
    [tag |-> RelayACK, val |-> inboundDataLen, payload |-> EmptySlice,
     size |-> ACKHeaderLen]

\* NewDataFrame: tag, length and a copy of sendData
NewDataFrame(sendData) ==
    [tag |-> RelayData, val |-> sendData.len, payload |-> sendData,
     size |-> DataMessageHeaderLen + sendData.len]

\* a slice expression s[:n] panics when n exceeds the capacity of s
SliceInRange(capacity, n) == n <= capacity

\* ---------------------------------------------------------------- tunnel.go
\* NewIAPTunnel, and Start having spawned the goroutine of start()
TunnelInit ==
    /\ ws = NoConn
    /\ sid = ""
    /\ totalBytesReceived = 0
    /\ totalBytesReceivedAcked = 0
    /\ totalBytesConfirmed = 0
    /\ incoming = <<>>
    /\ sending = EmptySlice
    /\ msgBuffer = EmptySlice
    /\ closed = FALSE
    /\ ready = FALSE
    /\ ctxDone = FALSE
    /\ loopPc = "start"
    /\ writerHeld = [c \in Conns |-> "none"]
    /\ dead = {}
    /\ dials = <<>>
    /\ wire = <<>>
    /\ arrived = 0
    /\ rd = [pc |-> "idle", buf |-> 0, early |-> FALSE]
    /\ reads = [count |-> 0, delivered |-> 0, n |-> 0, err |-> "nil", data |-> EmptySlice,
                ready |-> FALSE, early |-> FALSE, residual |-> FALSE]
    /\ wr = [pc |-> "idle", p |-> EmptySlice, totalSent |-> 0, conn |-> NoConn]
    /\ writes = [count |-> 0, n |-> 0, err |-> "nil", p |-> EmptySlice]
    /\ fault = ""

\* no bridge: the tunnel is driven directly
NoBridge ==
    [pc |-> "off", toLocal |-> "off", toTunnel |-> "off", seen |-> 0, written |-> 0,
     connClosed |-> FALSE]

\* a nil c.lis
NoListener == [set |-> FALSE, open |-> FALSE, counter |-> 0]

\* no call of the codec or the URL builder, no DryRun
NoCall == [fn |-> "none"]

NoDryRun ==
    [pc |-> "off", result |-> "none", dial |-> "none", attempts |-> 0, read |-> "none",
     reads |-> 0, status |-> 0]

NoCalls == call = NoCall /\ dry = NoDryRun

\* the Serve invocations
Servers == {1, 2}

\* NewIAPTunnelClient: not active, no listener; no Serve invoked
ClientInit ==
    /\ active = FALSE
    /\ lis = NoListener
    /\ serve = [s \in Servers |-> [pc |-> "idle", result |-> "none"]]
    /\ accepts = [left |-> MaxAccepts, fails |-> 0, spawned |-> 0]

\* the dial URL connectOrReconnect builds
DialURL == ConnectURI(Host)

\* mutant of ResetCounters: the acked mark is not reset with the counter
ResetReceivedOnly ==
    /\ totalBytesReceived' = 0
    /\ totalBytesConfirmed' = 0
    /\ UNCHANGED totalBytesReceivedAcked

\* connectOrReconnect, "Reset state for a new connection"
ResetCounters ==
    /\ totalBytesReceived' = 0
    /\ totalBytesReceivedAcked' = 0
    /\ totalBytesConfirmed' = 0

\* connectOrReconnect: outcome "token" is an error of headers(), "dial" an
\* error of websocket.Dial (which returns a nil connection), "ok" a handshake
connectOrReconnect(outcome) ==
    /\ Len(dials) < MaxDials
    /\ ResetCounters
    /\ IF outcome = "token"
       THEN UNCHANGED <<ws, dials>>
       ELSE /\ dials' = Append(dials, DialURL)
            /\ ws' = IF outcome = "ok" THEN Len(dials) + 1 ELSE NoConn

DialOutcomes == {"ok", "token", "dial"}

\* mutant of AfterDial: the loop goes on reading after a failed dial
AfterDialKeepsReading(outcome) == "read"

\* start(): `if err != nil { ...; return }` after connectOrReconnect, the read
\* loop otherwise
AfterDial(outcome) == IF outcome = "ok" THEN "read" ELSE "failed"

\* start(): the first dial
LoopStart(outcome) ==
    /\ Running
    /\ loopPc = "start"
    /\ connectOrReconnect(outcome)
    /\ loopPc' = AfterDial(outcome)
    /\ UNCHANGED <<sid, incoming, sending, ready, closed, ctxDone, writerHeld, dead, wire,
                   arrived, left, fault>>
    /\ UNCHANGED <<readerVars, writerVars>>
    /\ UNCHANGED outsideVars

\* the select after ws.Read: ctx.Done() or t.closed ends the loop
LoopMustStop == ctxDone \/ closed

\* mutant of ReadyOnceDo: close(t.ready) without the sync.Once, which panics
\* on a channel already closed
CloseReadyEveryTime ==
    IF ready
    THEN fault' = "close of closed channel" /\ UNCHANGED ready
    ELSE ready' = TRUE /\ UNCHANGED fault

\* t.readyOnce.Do(func() { close(t.ready) }): the first call closes the
\* channel, every later call returns without running the function
ReadyOnceDo ==
    /\ ready' = (IF ready THEN ready ELSE TRUE)
    /\ UNCHANGED fault

handleConnectSuccessSID(f) ==
    /\ sid' = SID(f)
    /\ ReadyOnceDo
    /\ loopPc' = "read"
    /\ UNCHANGED <<totalBytesReceived, totalBytesReceivedAcked, totalBytesConfirmed,
                   incoming, sending, arrived>>

\* mutant of handleReconnectSuccessACK: the reconnect acknowledgement fires
\* ready_signal too
handleReconnectSuccessACKReady(f) ==
    /\ totalBytesConfirmed' = ACK(f)
    /\ ready' = TRUE
    /\ loopPc' = "read"
    /\ UNCHANGED <<sid, totalBytesReceived, totalBytesReceivedAcked,
                   incoming, sending, arrived, fault>>

handleReconnectSuccessACK(f) ==
    /\ totalBytesConfirmed' = ACK(f)
    /\ loopPc' = "read"
    /\ UNCHANGED <<sid, ready, totalBytesReceived, totalBytesReceivedAcked,
                   incoming, sending, arrived, fault>>

handleACK(f) ==
    /\ totalBytesConfirmed' = ACK(f)
    /\ loopPc' = "read"
    /\ UNCHANGED <<sid, ready, totalBytesReceived, totalBytesReceivedAcked,
                   incoming, sending, arrived, fault>>

\* mutant of AckDue: the threshold is reached, not exceeded
AckDueAtThreshold(received, acked) == received - acked >= MaxMessageSize * 2

\* handleData: "sends ACKs for every MaxMessageSize * 2 bytes received"
AckDue(received, acked) == U64SubGt(received, acked, MaxMessageSize * 2)

\* handleData from the send `t.incoming <- data` on, up to the Send of the ACK
\* frame: the payload is enqueued, the counter advanced, and the loop goes on
\* to send an ACK when one is due.
Enqueue(data) ==
    /\ incoming' = Append(incoming, data)
    /\ sending' = EmptySlice
    /\ totalBytesReceived' = totalBytesReceived + data.len
    /\ arrived' = arrived + data.len
    /\ loopPc' = IF AckDue(totalBytesReceived', totalBytesReceivedAcked)
                 THEN "ackWriter" ELSE "read"

\* mutant of handleData: a payload that precedes the session id is dropped
handleDataAfterSID(f) ==
    LET data == Data(f)[1]
    IN  /\ IF sid = ""
           THEN /\ loopPc' = "read"
                /\ UNCHANGED <<incoming, sending, totalBytesReceived, arrived>>
           ELSE Enqueue(data)
        /\ UNCHANGED <<sid, ready, totalBytesReceivedAcked, totalBytesConfirmed, fault>>

\* handleData up to the Send of the ACK frame. The send to t.incoming is a
\* plain channel send: it completes at once while the channel has room, and
\* blocks the read loop while it is full. The payload slice is never nil. The
\* log argument frame.data[:20] stays within the capacity of the message,
\* which ws.Read returns from io.ReadAll with a capacity of 512 bytes or more.
handleData(f) ==
    LET data == Data(f)[1]
    IN  /\ IF Len(incoming) < IncomingCap
           THEN Enqueue(data)
           ELSE /\ sending' = data
                /\ loopPc' = "enqueue"
                /\ UNCHANGED <<incoming, totalBytesReceived, arrived>>
        /\ UNCHANGED <<sid, ready, totalBytesReceivedAcked, totalBytesConfirmed, fault>>

\* mutant of handleUnknown: a frame of unknown tag ends the read loop
handleUnknownStops ==
    /\ loopPc' = "done"
    /\ UNCHANGED <<tunnelVars, arrived, fault>>

\* handleFrame: `default:`, a warning is logged
handleUnknown ==
    /\ loopPc' = "read"
    /\ UNCHANGED <<tunnelVars, arrived, fault>>

handleFrame(f) ==
    CASE Type(f) = RelayConnectSuccessSID -> handleConnectSuccessSID(f)
      [] Type(f) = RelayReconnectSuccessACK -> handleReconnectSuccessACK(f)
      [] Type(f) = RelayACK -> handleACK(f)
      [] Type(f) = RelayData -> handleData(f)
      [] OTHER -> handleUnknown

\* the frames the relay may send next
ControlFrames ==
    {Frame(RelayConnectSuccessSID, s, 0, 0, 0, 0) : s \in SIDs}
    \cup {Frame(t, "", a, 0, 0, 0) : t \in {RelayReconnectSuccessACK, RelayACK}, a \in AckVals}
    \cup {Frame(t, "", 0, 0, 0, 0) : t \in UnknownTags}

DataFrames(lens) == {Frame(RelayData, "", 0, n, r, arrived) : n \in lens, r \in RestLens}

\* the relay's budget of events
CanAct == left.events > 0

Spend == [left EXCEPT !.events = @ - 1]

\* start(): ws.Read returned message f
LoopRecv(f) ==
    /\ Running
    /\ loopPc = "read"
    /\ ws \notin dead \/ LoopMustStop
    /\ CanAct
    /\ left' = Spend
    /\ IF LoopMustStop
       THEN /\ loopPc' = "done"
            /\ UNCHANGED <<tunnelVars, arrived, fault>>
       ELSE handleFrame(f)
    /\ UNCHANGED <<ws, closed, ctxDone, writerHeld, dead, dials, wire>>
    /\ UNCHANGED <<readerVars, writerVars>>
    /\ UNCHANGED outsideVars

\* handleData blocked at `t.incoming <- data`: the send completes when the
\* channel has room again
LoopEnqueue ==
    /\ Running
    /\ loopPc = "enqueue"
    /\ Len(incoming) < IncomingCap
    /\ Enqueue(sending)
    /\ UNCHANGED <<ws, sid, ready, totalBytesReceivedAcked, totalBytesConfirmed, closed,
                   ctxDone, writerHeld, dead, dials, wire, left, fault>>
    /\ UNCHANGED <<readerVars, writerVars>>
    /\ UNCHANGED outsideVars

LoopRecvControl == \E f \in ControlFrames : LoopRecv(f)

LoopRecvData == \E f \in DataFrames(LoopDataLens) : LoopRecv(f)

\* mutant of MayReconnect: the session id is not required
MayReconnectWithoutSid == ~ctxDone

\* start(): `if ctx.Err() == nil && t.sid != ""`
MayReconnect == ~ctxDone /\ sid # ""

\* start(): ws.Read returned an error; `normal` is a close frame of status 1000
\* (websocket.CloseStatus(err) == StatusNormalClosure). A failed read leaves
\* the connection closed.
LoopReadErr(normal, outcome) ==
    /\ Running
    /\ loopPc = "read"
    /\ CanAct \/ ws \in dead \/ ctxDone
    /\ left' = IF ws \in dead \/ ctxDone THEN left ELSE Spend
    /\ dead' = dead \cup {ws}
    /\ IF LoopMustStop \/ normal \/ ~MayReconnect
       THEN /\ loopPc' = "done"
            /\ outcome = "ok"
            /\ UNCHANGED <<ws, dials, totalBytesReceived, totalBytesReceivedAcked,
                           totalBytesConfirmed>>
       ELSE /\ connectOrReconnect(outcome)
            /\ loopPc' = AfterDial(outcome)
    /\ UNCHANGED <<sid, incoming, sending, ready, closed, ctxDone, writerHeld, wire, arrived,
                   fault>>
    /\ UNCHANGED <<readerVars, writerVars>>
    /\ UNCHANGED outsideVars

LoopReadError == \E normal \in BOOLEAN, outcome \in DialOutcomes : LoopReadErr(normal, outcome)

\* conn.Writer of the websocket library: one message writer per connection is
\* open at a time, a second caller waits for writer.Close; it fails on a
\* closed connection
WriterFails(c) == c \in dead

\* mutant of WriterFree: Send does not wait for the open writer
WriterNeverWaits(c) == TRUE

WriterFree(c) == writerHeld[c] = "none"

AcquireWriter(task, c) ==
    /\ WriterFree(c)
    /\ writerHeld' = [writerHeld EXCEPT ![c] = task]

\* the deferred writer.Close()
ReleaseWriter(c) == writerHeld' = [writerHeld EXCEPT ![c] = "none"]

\* writer.Write(f.frame) on connection c: the frame is on the wire when it
\* succeeds, the connection is closed when it fails
WriteFrame(c, frame, ok) ==
    /\ ok => c \notin dead
    /\ wire' = IF ok THEN Append(wire, [conn |-> c, frame |-> frame]) ELSE wire
    /\ dead' = IF ok THEN dead ELSE dead \cup {c}

\* handleData: NewACKFrame(t.totalBytesReceived).Send(t.ws), the call of
\* conn.Writer
LoopAckWriter ==
    /\ Running
    /\ loopPc = "ackWriter"
    /\ IF WriterFails(ws)
       THEN /\ loopPc' = "read"
            /\ UNCHANGED writerHeld
       ELSE /\ AcquireWriter("loop", ws)
            /\ loopPc' = "ackWrite"
    /\ UNCHANGED <<ws, tunnelVars, closed, ctxDone, dead, dials, wire, arrived, left, fault>>
    /\ UNCHANGED <<readerVars, writerVars>>
    /\ UNCHANGED outsideVars

\* handleData after Send returned: the acked mark follows a sent ACK only
AfterAckSend(ok) ==
    totalBytesReceivedAcked' = IF ok THEN totalBytesReceived ELSE totalBytesReceivedAcked

\* ACKFrame.Send from writer.Write on, and the rest of handleData
LoopAckWrite(ok) ==
    /\ Running
    /\ loopPc = "ackWrite"
    /\ WriteFrame(ws, NewACKFrame(totalBytesReceived), ok)
    /\ ReleaseWriter(ws)
    /\ AfterAckSend(ok)
    /\ loopPc' = "read"
    /\ UNCHANGED <<ws, sid, totalBytesReceived, totalBytesConfirmed, incoming, sending, ready,
                   closed, ctxDone, dials, arrived, left, fault>>
    /\ UNCHANGED <<readerVars, writerVars>>
    /\ UNCHANGED outsideVars

LoopAckSend == \E ok \in BOOLEAN : LoopAckWrite(ok)

\* Close: close(t.closed), then t.ws.Close(StatusNormalClosure, ...) when a
\* connection was dialled
Close ==
    /\ Running
    /\ ~closed
    /\ closed' = TRUE
    /\ dead' = IF ws # NoConn THEN dead \cup {ws} ELSE dead
    /\ UNCHANGED <<ws, tunnelVars, ctxDone, loopPc, writerHeld, dials, wire, arrived,
                   left, fault>>
    /\ UNCHANGED <<readerVars, writerVars>>
    /\ UNCHANGED outsideVars

\* the caller cancels the context passed to Start
CtxCancel ==
    /\ Running
    /\ ~ctxDone
    /\ ctxDone' = TRUE
    /\ UNCHANGED <<ws, tunnelVars, closed, loopPc, writerHeld, dead, dials, wire,
                   arrived, left, fault>>
    /\ UNCHANGED <<readerVars, writerVars>>
    /\ UNCHANGED outsideVars

\* ------------------------------------------------- the read loop on its own
Init ==
    /\ TunnelInit
    /\ bridge = NoBridge
    /\ ClientInit
    /\ NoCalls
    /\ left = [events |-> MaxEvents, reads |-> 0, writes |-> 0]

LoopDial == \E outcome \in DialOutcomes : LoopStart(outcome)

Next ==
    \/ LoopDial
    \/ LoopRecvControl
    \/ LoopRecvData
    \/ LoopReadError
    \/ LoopAckWriter
    \/ LoopAckSend
    \/ Close
    \/ CtxCancel

Spec == Init /\ [][Next]_vars

\* ------------------------------------------------------------ tunnel.go Read
\* Read is called with a buffer of b bytes
ReadCall(b) ==
    /\ Running
    /\ rd.pc = "idle"
    /\ left.reads > 0
    /\ left' = [left EXCEPT !.reads = @ - 1]
    /\ rd' = [pc |-> "select", buf |-> b, early |-> ~ready /\ incoming # <<>>]
    /\ UNCHANGED <<ws, tunnelVars, msgBuffer, reads, closed, ctxDone, loopPc, writerHeld,
                   dead, dials, wire, arrived, fault>>
    /\ UNCHANGED writerVars
    /\ UNCHANGED outsideVars

ReadCalled == \E b \in BufLens : ReadCall(b)

\* Read returns (n, err); `data` is the slice of bytes copied into p. The
\* result is recorded with whether ready_signal has fired at the return,
\* whether the call began before it with payloads already queued, and whether
\* the bytes came from the residual.
ReadReturn(n, err, data, residual) ==
    /\ reads' = [count |-> reads.count + 1, delivered |-> reads.delivered + n,
                 n |-> n, err |-> err, data |-> data, ready |-> ready,
                 early |-> rd.early, residual |-> residual]
    /\ rd' = [pc |-> "idle", buf |-> 0, early |-> FALSE]

\* mutant of SelectReady: Read does not wait for ready_signal
SelectNoReady == TRUE

\* the cases of the select at the top of Read
SelectClosed == closed

SelectReady == ready

\* Read: `case <-t.closed: return 0, io.EOF`
ReadClosed ==
    /\ Running
    /\ rd.pc = "select"
    /\ SelectClosed
    /\ ReadReturn(0, "EOF", EmptySlice, FALSE)
    /\ UNCHANGED <<ws, tunnelVars, msgBuffer, closed, ctxDone, loopPc, writerHeld, dead,
                   dials, wire, arrived, left, fault>>
    /\ UNCHANGED writerVars
    /\ UNCHANGED outsideVars

\* Read: "Serve any pending data first": n := copy(p, t.msgBuffer)
ServeResidual ==
    LET n == Min(rd.buf, msgBuffer.len)
    IN  /\ msgBuffer' = SliceFrom(msgBuffer, n)
        /\ ReadReturn(n, "nil", SliceTo(msgBuffer, n), TRUE)

\* Read: `case <-t.ready:`, then the residual is served or the channel awaited
ReadReady ==
    /\ Running
    /\ rd.pc = "select"
    /\ SelectReady
    /\ IF msgBuffer.len > 0
       THEN ServeResidual
       ELSE /\ rd' = [rd EXCEPT !.pc = "recv"]
            /\ UNCHANGED <<msgBuffer, reads>>
    /\ UNCHANGED <<ws, tunnelVars, closed, ctxDone, loopPc, writerHeld, dead,
                   dials, wire, arrived, left, fault>>
    /\ UNCHANGED writerVars
    /\ UNCHANGED outsideVars

\* mutant of ServeData: the tail that did not fit is not kept
ServeDataDropTail(data) ==
    LET n == Min(rd.buf, data.len)
    IN  /\ msgBuffer' = EmptySlice
        /\ ReadReturn(n, "nil", SliceTo(data, n), FALSE)

\* Read: n := copy(p, data); t.msgBuffer = data[n:]
ServeData(data) ==
    LET n == Min(rd.buf, data.len)
    IN  /\ msgBuffer' = SliceFrom(data, n)
        /\ ReadReturn(n, "nil", SliceTo(data, n), FALSE)

\* Read: `data, ok := <-t.incoming`; the channel is never closed
ReadRecv ==
    /\ Running
    /\ rd.pc = "recv"
    /\ incoming # <<>>
    /\ incoming' = Tail(incoming)
    /\ ServeData(Head(incoming))
    /\ UNCHANGED <<ws, sid, totalBytesReceived, totalBytesReceivedAcked,
                   totalBytesConfirmed, sending, ready, closed, ctxDone, loopPc, writerHeld,
                   dead, dials, wire, arrived, left, fault>>
    /\ UNCHANGED writerVars
    /\ UNCHANGED outsideVars

\* ----------------------------------------------------------- tunnel.go Write
\* Write is called with a payload of n bytes, the next n bytes of the stream
\* the local side submits
WriteCall(n) ==
    /\ Running
    /\ wr.pc = "idle"
    /\ left.writes > 0
    /\ left' = [left EXCEPT !.writes = @ - 1]
    /\ wr' = [pc |-> "chunk", p |-> [start |-> wr.p.start + wr.p.len, len |-> n],
              totalSent |-> 0, conn |-> NoConn]
    /\ UNCHANGED <<ws, tunnelVars, closed, ctxDone, loopPc, writerHeld, dead, dials,
                   wire, arrived, writes, fault>>
    /\ UNCHANGED readerVars
    /\ UNCHANGED outsideVars

WriteCalled == \E n \in WriteLens : WriteCall(n)

\* Write: chunk := p[totalSent:chunkEnd], chunkEnd capped at len(p)
Chunk(p, totalSent) ==
    LET chunkEnd == Min(totalSent + MaxMessageSize, p.len)
    IN  [start |-> p.start + totalSent, len |-> chunkEnd - totalSent]

\* Write returns (n, err); the next payload continues the submitted stream
WriteReturn(n, err) ==
    /\ writes' = [count |-> writes.count + 1, n |-> n, err |-> err, p |-> wr.p]
    /\ wr' = [wr EXCEPT !.pc = "idle", !.conn = NoConn]

\* DataFrame.Send: conn.Writer on t.ws as Write reads it; a nil connection is
\* dereferenced
WriteWriter ==
    /\ Running
    /\ wr.pc = "chunk"
    /\ IF ws = NoConn
       THEN /\ fault' = "nil pointer dereference"
            /\ wr' = [wr EXCEPT !.pc = "panic"]
            /\ UNCHANGED <<writes, writerHeld>>
       ELSE IF WriterFails(ws)
       THEN /\ WriteReturn(wr.totalSent, "writer")
            /\ UNCHANGED <<writerHeld, fault>>
       ELSE /\ AcquireWriter("pump", ws)
            /\ wr' = [wr EXCEPT !.pc = "write", !.conn = ws]
            /\ UNCHANGED <<writes, fault>>
    /\ UNCHANGED <<ws, tunnelVars, closed, ctxDone, loopPc, dead, dials, wire, arrived, left>>
    /\ UNCHANGED readerVars
    /\ UNCHANGED outsideVars

\* DataFrame.Send: the argument f.frame[:20] of the log statement
LogPrefixInRange(frame) == SliceInRange(frame.size, LogPrefixLen)

\* DataFrame.Send from writer.Write on, and the rest of the loop of Write
WriteSend(ok) ==
    LET frame == NewDataFrame(Chunk(wr.p, wr.totalSent))
        sent == frame.size - DataMessageHeaderLen
        total == wr.totalSent + sent
    IN  /\ Running
        /\ wr.pc = "write"
        /\ WriteFrame(wr.conn, frame, ok)
        /\ ReleaseWriter(wr.conn)
        /\ IF ~LogPrefixInRange(frame)
           THEN /\ fault' = "slice bounds out of range"
                /\ wr' = [wr EXCEPT !.pc = "panic", !.conn = NoConn]
                /\ UNCHANGED writes
           ELSE IF ~ok
           THEN /\ WriteReturn(wr.totalSent, "write")
                /\ UNCHANGED fault
           ELSE IF total < wr.p.len
           THEN /\ wr' = [wr EXCEPT !.pc = "chunk", !.totalSent = total, !.conn = NoConn]
                /\ UNCHANGED <<writes, fault>>
           ELSE /\ WriteReturn(total, "nil")
                /\ UNCHANGED fault
        /\ UNCHANGED <<ws, tunnelVars, closed, ctxDone, loopPc, dials, arrived, left>>
        /\ UNCHANGED readerVars
        /\ UNCHANGED outsideVars

WriteSent == \E ok \in BOOLEAN : WriteSend(ok)

\* ------------------------------------------- the read loop and the reader
InitIO ==
    /\ TunnelInit
    /\ bridge = NoBridge
    /\ ClientInit
    /\ NoCalls
    /\ left = [events |-> MaxEventsIO, reads |-> MaxReads, writes |-> 0]

LoopRecvDataIO == \E f \in DataFrames(DataLens) : LoopRecv(f)

NextIO ==
    \/ LoopDial
    \/ LoopRecvControl
    \/ LoopRecvDataIO
    \/ LoopReadError
    \/ LoopAckWriter
    \/ LoopAckSend
    \/ ReadCalled
    \/ ReadClosed
    \/ ReadReady
    \/ ReadRecv
    \/ Close
    \/ CtxCancel

SpecIO == InitIO /\ [][NextIO]_vars

\* ------------------------------------------- the read loop and the writer
InitW ==
    /\ TunnelInit
    /\ bridge = NoBridge
    /\ ClientInit
    /\ NoCalls
    /\ left = [events |-> MaxEventsW, reads |-> 0, writes |-> MaxWrites]

LoopRecvDataW == \E f \in DataFrames({MaxMessageSize}) : LoopRecv(f)

NextW ==
    \/ LoopDial
    \/ LoopRecvControl
    \/ LoopRecvDataW
    \/ LoopReadError
    \/ LoopAckWriter
    \/ LoopAckSend
    \/ WriteCalled
    \/ WriteWriter
    \/ WriteSent
    \/ Close
    \/ CtxCancel

SpecW == InitW /\ [][NextW]_vars

\* ------------------------------------- the read loop and repeated Close calls
\* Close on a tunnel already closed: close(t.closed) panics on the closed
\* channel
CloseAgain ==
    /\ Running
    /\ closed
    /\ fault' = "close of closed channel"
    /\ UNCHANGED <<sessionVars, ctxDone, outsideVars>>

NextL ==
    \/ LoopDial
    \/ LoopRecvControl
    \/ LoopRecvData
    \/ LoopReadError
    \/ LoopAckWriter
    \/ LoopAckSend
    \/ Close
    \/ CloseAgain
    \/ CtxCancel

SpecL == Init /\ [][NextL]_vars

\* --------------------------------------------------- client.go processConn
\* processConn has created the tunnel, called tunnel.Start and deferred the two
\* Close calls; it is at the select on tunnel.Ready() and ctx.Done()
BridgeStarted ==
    [pc |-> "select", toLocal |-> "off", toTunnel |-> "off", seen |-> 0, written |-> 0,
     connClosed |-> FALSE]

\* processConn: the select; on Ready it goes on to syncConnections, which
\* starts the two pumps, on ctx.Done() it returns
BridgeSelect ==
    /\ Running
    /\ bridge.pc = "select"
    /\ \/ /\ ready
          /\ bridge' = [bridge EXCEPT !.pc = "sync", !.toLocal = "run", !.toTunnel = "run"]
       \/ /\ ctxDone
          /\ bridge' = [bridge EXCEPT !.pc = "closeConn"]
    /\ UNCHANGED <<sessionVars, callVars, ctxDone, fault, clientVars>>

\* copyConn(source, target), io.Copy(conn, tunnel): the pump calls tunnel.Read
\* once the result of the call before is dealt with
PumpRead ==
    /\ bridge.toLocal = "run"
    /\ reads.count = bridge.seen
    /\ ReadCalled

\* io.Copy(conn, tunnel) after tunnel.Read returned: the bytes read are written
\* to the local connection, and the pump returns when that write fails or
\* Read returned an error. `ok` is the outcome of conn.Write.
PumpToLocalStep(ok) ==
    /\ Running
    /\ bridge.toLocal = "run"
    /\ rd.pc = "idle"
    /\ reads.count > bridge.seen
    /\ reads.n = 0 => ok
    /\ bridge.connClosed => ~ok
    /\ bridge' = [bridge EXCEPT
                    !.seen = reads.count,
                    !.toLocal = IF (reads.n > 0 /\ ~ok) \/ reads.err # "nil"
                                THEN "returned" ELSE "run"]
    /\ UNCHANGED <<sessionVars, callVars, ctxDone, fault, clientVars>>

PumpToLocal == \E ok \in BOOLEAN : PumpToLocalStep(ok)

\* copyConn(target, source), io.Copy(tunnel, conn): conn.Read returned bytes
\* and the pump hands them to tunnel.Write
PumpFromLocal ==
    /\ bridge.toTunnel = "run"
    /\ writes.count = bridge.written
    /\ ~bridge.connClosed
    /\ WriteCalled

\* io.Copy(tunnel, conn): conn.Read returned io.EOF or an error, the pump
\* returns
PumpLocalEnd ==
    /\ Running
    /\ bridge.toTunnel = "run"
    /\ wr.pc = "idle"
    /\ writes.count = bridge.written
    /\ bridge' = [bridge EXCEPT !.toTunnel = "returned"]
    /\ UNCHANGED <<sessionVars, callVars, ctxDone, fault, clientVars>>

\* io.Copy(tunnel, conn) after tunnel.Write returned: the pump returns on an
\* error or a short write
PumpFromLocalResult ==
    /\ Running
    /\ bridge.toTunnel = "run"
    /\ wr.pc = "idle"
    /\ writes.count > bridge.written
    /\ bridge' = [bridge EXCEPT
                    !.written = writes.count,
                    !.toTunnel = IF writes.err # "nil" \/ writes.n # writes.p.len
                                 THEN "returned" ELSE "run"]
    /\ UNCHANGED <<sessionVars, callVars, ctxDone, fault, clientVars>>

\* syncConnections: g.Wait() returns when both pumps have returned
BridgeWait ==
    /\ Running
    /\ bridge.pc = "sync"
    /\ bridge.toLocal = "returned"
    /\ bridge.toTunnel = "returned"
    /\ bridge' = [bridge EXCEPT !.pc = "closeConn"]
    /\ UNCHANGED <<sessionVars, callVars, ctxDone, fault, clientVars>>

\* processConn returns: the deferred conn.Close()
BridgeConnClose ==
    /\ Running
    /\ bridge.pc = "closeConn"
    /\ bridge' = [bridge EXCEPT !.pc = "closeTunnel", !.connClosed = TRUE]
    /\ UNCHANGED <<sessionVars, callVars, ctxDone, fault, clientVars>>

\* processConn returns: the deferred tunnel.Close()
BridgeTunnelClose ==
    /\ bridge.pc = "closeTunnel"
    /\ Close

\* processConn is over
BridgeReturn ==
    /\ Running
    /\ bridge.pc = "closeTunnel"
    /\ closed
    /\ bridge' = [bridge EXCEPT !.pc = "done"]
    /\ UNCHANGED <<sessionVars, callVars, ctxDone, fault, clientVars>>

\* ------------------------------------------------- one bridge and its tunnel
InitB ==
    /\ TunnelInit
    /\ left = [events |-> MaxEventsB, reads |-> MaxReads, writes |-> MaxWrites]
    /\ bridge = BridgeStarted
    /\ ClientInit
    /\ NoCalls

\* short payloads: the ACK path of the read loop is not in this specification
LoopRecvDataB == \E f \in DataFrames({5}) : LoopRecv(f)

\* t.closed is closed only when both pumps have returned, so no Read of a pump
\* takes the closed case of its select
NextB ==
    \/ LoopDial
    \/ LoopRecvControl
    \/ LoopRecvDataB
    \/ LoopReadError
    \/ CtxCancel
    \/ BridgeSelect
    \/ PumpRead
    \/ ReadReady
    \/ ReadRecv
    \/ PumpToLocal
    \/ PumpFromLocal
    \/ WriteWriter
    \/ WriteSent
    \/ PumpFromLocalResult
    \/ PumpLocalEnd
    \/ BridgeWait
    \/ BridgeConnClose
    \/ BridgeTunnelClose
    \/ BridgeReturn

SpecB == InitB /\ [][NextB]_vars

\* ------------------------------------------------- client.go Serve, Accept
\* newListener: retryCount: 3
retryCount == 3

\* isConnectionClosed: errors.Is(err, context.Canceled) || errors.Is(err,
\* net.ErrClosed)
isConnectionClosed(err) == err \in {"canceled", "closed"}

\* mutant of MayRetry: one retry more
MayRetryInclusive(counter) == counter <= retryCount

\* tcpListener.Accept: `l.counter < l.retryCount`
MayRetry(counter) == counter < retryCount

\* mutant of AcceptResult, the earlier revision of tcpListener.Accept: every
\* error is retried first, and classified when the retries are used up
AcceptResultEarlier(err, counter) ==
    IF MayRetry(counter) THEN "retry"
    ELSE IF isConnectionClosed(err) THEN "closed" ELSE "error"

\* tcpListener.Accept on an error of l.lis.Accept: a listener-closed error
\* returns (nil, nil, true), another one is retried while the counter allows
\* and returned wrapped after that
AcceptResult(err, counter) ==
    IF isConnectionClosed(err) THEN "closed"
    ELSE IF MayRetry(counter) THEN "retry" ELSE "error"

\* what l.lis.Accept may return: a connection or a transient error from an
\* open listener, net.ErrClosed from a closed one
AcceptOutcomes == IF lis.open THEN {"conn", "transient"} ELSE {"closed"}

\* Serve is invoked
ServeCall(s) ==
    /\ Running
    /\ serve[s].pc = "idle"
    /\ serve' = [serve EXCEPT ![s].pc = "isActive"]
    /\ UNCHANGED <<sessionVars, callVars, ctxDone, fault, bridge, active, lis, accepts>>

\* Serve: `if c.isActive() { return errors.New("...already active") }`
ServeIsActive(s) ==
    /\ Running
    /\ serve[s].pc = "isActive"
    /\ serve' = [serve EXCEPT ![s] = IF active
                                     THEN [pc |-> "done", result |-> "already active"]
                                     ELSE [pc |-> "setActive", result |-> "none"]]
    /\ UNCHANGED <<sessionVars, callVars, ctxDone, fault, bridge, active, lis, accepts>>

\* Serve: c.setActive(true), and the deferred c.setActive(false) is registered
ServeSetActive(s) ==
    /\ Running
    /\ serve[s].pc = "setActive"
    /\ active' = TRUE
    /\ serve' = [serve EXCEPT ![s].pc = "listen"]
    /\ UNCHANGED <<sessionVars, callVars, ctxDone, fault, bridge, lis, accepts>>

\* Serve: `if c.lis == nil`
ServeListen(s) ==
    /\ Running
    /\ serve[s].pc = "listen"
    /\ serve' = [serve EXCEPT ![s].pc = IF lis.set THEN "accept" ELSE "bind"]
    /\ UNCHANGED <<sessionVars, callVars, ctxDone, fault, bridge, active, lis, accepts>>

\* Serve: c.lis, err = newListener(ctx, c.localPort); the bind fails while a
\* listener holds the port, and c.lis is assigned nil when it fails
ServeBind(s, ok) ==
    /\ Running
    /\ serve[s].pc = "bind"
    /\ ok => ~lis.open
    /\ IF ok
       THEN /\ lis' = [set |-> TRUE, open |-> TRUE, counter |-> 0]
            /\ accepts' = [accepts EXCEPT !.fails = 0]
            /\ serve' = [serve EXCEPT ![s].pc = "accept"]
       ELSE /\ lis' = [lis EXCEPT !.set = FALSE]
            /\ serve' = [serve EXCEPT ![s] = [pc |-> "unset", result |-> "listen error"]]
            /\ UNCHANGED accepts
    /\ UNCHANGED <<sessionVars, callVars, ctxDone, fault, bridge, active>>

ServeBound(s) == \E ok \in BOOLEAN : ServeBind(s, ok)

\* Serve: one l.lis.Accept() of c.lis.Accept() and what follows it: a
\* connection resets the counter and gets its processConn goroutine, an error
\* is retried or ends Serve; a nil c.lis is dereferenced
ServeAccept(s, outcome) ==
    /\ Running
    /\ serve[s].pc = "accept"
    /\ IF ~lis.set
       THEN /\ fault' = "nil pointer dereference"
            /\ UNCHANGED <<lis, serve, accepts>>
       ELSE /\ outcome \in AcceptOutcomes
            /\ accepts.left > 0
            /\ UNCHANGED fault
            /\ IF outcome = "conn"
               THEN /\ lis' = [lis EXCEPT !.counter = 0]
                    /\ accepts' = [left |-> accepts.left - 1, fails |-> 0,
                                   spawned |-> accepts.spawned + 1]
                    /\ UNCHANGED serve
               ELSE /\ accepts' = [accepts EXCEPT
                                     !.left = @ - 1,
                                     !.fails = IF outcome = "transient" THEN @ + 1 ELSE @]
                    /\ LET res == AcceptResult(outcome, lis.counter)
                       IN  CASE res = "closed" ->
                                 /\ serve' = [serve EXCEPT
                                                ![s] = [pc |-> "closeLis", result |-> "nil"]]
                                 /\ UNCHANGED lis
                             [] res = "retry" ->
                                 /\ lis' = [lis EXCEPT !.counter = @ + 1]
                                 /\ UNCHANGED serve
                             [] OTHER ->
                                 /\ serve' = [serve EXCEPT
                                                ![s] = [pc |-> "closeLis",
                                                        result |-> "accept error"]]
                                 /\ UNCHANGED lis
    /\ UNCHANGED <<sessionVars, callVars, ctxDone, bridge, active>>

ServeAccepted(s) == \E outcome \in {"conn", "transient", "closed"} : ServeAccept(s, outcome)

\* Serve returns: the deferred c.lis.Close()
ServeCloseLis(s) ==
    /\ Running
    /\ serve[s].pc = "closeLis"
    /\ IF ~lis.set
       THEN /\ fault' = "nil pointer dereference"
            /\ UNCHANGED <<lis, serve>>
       ELSE /\ lis' = [lis EXCEPT !.open = FALSE]
            /\ serve' = [serve EXCEPT ![s].pc = "unset"]
            /\ UNCHANGED fault
    /\ UNCHANGED <<sessionVars, callVars, ctxDone, bridge, active, accepts>>

\* Serve returns: the deferred c.setActive(false)
ServeUnset(s) ==
    /\ Running
    /\ serve[s].pc = "unset"
    /\ active' = FALSE
    /\ serve' = [serve EXCEPT ![s].pc = "done"]
    /\ UNCHANGED <<sessionVars, callVars, ctxDone, fault, bridge, lis, accepts>>

\* IAPTunnelClient.Close: c.lis.Close() when c.lis is not nil
ClientClose ==
    /\ Running
    /\ lis.set
    /\ lis.open
    /\ lis' = [lis EXCEPT !.open = FALSE]
    /\ UNCHANGED <<sessionVars, callVars, ctxDone, fault, bridge, active, serve, accepts>>

\* ------------------------------------------------ the client and its Serves
InitS ==
    /\ TunnelInit
    /\ left = [events |-> 0, reads |-> 0, writes |-> 0]
    /\ bridge = NoBridge
    /\ ClientInit
    /\ NoCalls

NextS ==
    \/ \E s \in Servers : ServeCall(s)
    \/ \E s \in Servers : ServeIsActive(s)
    \/ \E s \in Servers : ServeSetActive(s)
    \/ \E s \in Servers : ServeListen(s)
    \/ \E s \in Servers : ServeBound(s)
    \/ \E s \in Servers : ServeAccepted(s)
    \/ \E s \in Servers : ServeCloseLis(s)
    \/ \E s \in Servers : ServeUnset(s)
    \/ ClientClose

SpecS == InitS /\ [][NextS]_vars

\* ---------------------------------- the read loop and a full inbound queue
\* the relay sends the session id once
LoopRecvSIDQ ==
    /\ sid = ""
    /\ LoopRecv(Frame(RelayConnectSuccessSID, "S1", 0, 0, 0, 0))

\* DATA frames of one byte
LoopRecvDataQ == \E f \in DataFrames({1}) : LoopRecv(f)

\* the read pending when Close closed the WebSocket, or when the context was
\* cancelled, returns its error
LoopReadErrorQ ==
    /\ LoopMustStop
    /\ LoopReadError

\* Read is called with the buffer of io.Copy
ReadCalledQ == ReadCall(2 * MaxMessageSize)

InitQ ==
    /\ TunnelInit
    /\ bridge = NoBridge
    /\ ClientInit
    /\ NoCalls
    /\ left = [events |-> MaxEventsQ, reads |-> MaxReadsQ, writes |-> 0]

NextQ ==
    \/ LoopDial
    \/ LoopRecvSIDQ
    \/ LoopRecvDataQ
    \/ LoopEnqueue
    \/ LoopReadErrorQ
    \/ ReadCalledQ
    \/ ReadReady
    \/ ReadRecv
    \/ Close
    \/ CtxCancel

SpecQ == InitQ /\ [][NextQ]_vars

\* ------------------------------------------------ frame.go, byte by byte
\* binary.BigEndian.PutUint16 and PutUint32: the bytes of v, most significant
\* first
PutUint16(v) == <<(v \div 256) % 256, v % 256>>

PutUint32(v) ==
    <<(v \div 16777216) % 256, (v \div 65536) % 256, (v \div 256) % 256, v % 256>>

\* binary.BigEndian.Uint16 and Uint32
Uint16(b) == b[1] * 256 + b[2]

Uint32(b) == b[1] * 16777216 + b[2] * 65536 + b[3] * 256 + b[4]

\* s[lo:hi] of a byte sequence, positions counted from 0
Bytes(s, lo, hi) == SubSeq(s, lo + 1, hi)

\* NewDataFrame: make([]byte, DataMessageHeaderLen+len(sendData)), the tag,
\* uint32(len(sendData)) and a copy of sendData; the conversion keeps every
\* length below 2^32
DataFrameBytes(sendData) ==
    PutUint16(RelayData) \o PutUint32(Len(sendData)) \o sendData

\* IncomingFrame.Type
FrameType(data) == Uint16(Bytes(data, 0, MessageTagLen))

\* mutant of FrameData: the payload is taken from the end of the tag on
FrameDataFromTag(data) ==
    LET msgLen == Uint32(Bytes(data, MessageTagLen, DataMessageHeaderLen))
        fullPayload == Bytes(data, MessageTagLen, Len(data))
    IN  IF msgLen > Len(fullPayload)
        THEN [panic |-> TRUE, data |-> <<>>, rest |-> <<>>]
        ELSE [panic |-> FALSE,
              data |-> Bytes(fullPayload, 0, msgLen),
              rest |-> Bytes(fullPayload, msgLen, Len(fullPayload))]

\* IncomingFrame.Data: fullPayload[:msgLen], fullPayload[msgLen:]; the slice
\* expression panics when msgLen exceeds the bytes that follow the header
FrameData(data) ==
    LET msgLen == Uint32(Bytes(data, MessageTagLen, DataMessageHeaderLen))
        fullPayload == Bytes(data, DataMessageHeaderLen, Len(data))
    IN  IF msgLen > Len(fullPayload)
        THEN [panic |-> TRUE, data |-> <<>>, rest |-> <<>>]
        ELSE [panic |-> FALSE,
              data |-> Bytes(fullPayload, 0, msgLen),
              rest |-> Bytes(fullPayload, msgLen, Len(fullPayload))]

\* the payloads handed to NewDataFrame: n bytes counting up from `first`
PayloadLens == {0, 1, 255, 256, 257, MaxMessageSize - 1, MaxMessageSize}

Payload(n, first) == [i \in 1..n |-> (first + i - 1) % 256]

Payloads == {Payload(n, first) : n \in PayloadLens, first \in 0..MaxFirstByte}

\* NewDataFrame(p) is called
CodecEncode ==
    /\ call.fn = "NewDataFrame"
    /\ call.pc = "input"
    /\ call' = [call EXCEPT !.pc = "encoded", !.frame = DataFrameBytes(call.p)]
    /\ UNCHANGED <<sessionVars, ctxDone, fault, bridge, clientVars, dry>>

\* the frame is decoded: NewIncomingFrame(frame), Type() and Data()
CodecDecode ==
    /\ call.fn = "NewDataFrame"
    /\ call.pc = "encoded"
    /\ call' = [call EXCEPT !.pc = "decoded",
                            !.tag = FrameType(call.frame),
                            !.out = FrameData(call.frame)]
    /\ UNCHANGED <<sessionVars, ctxDone, fault, bridge, clientVars, dry>>

InitF ==
    /\ TunnelInit
    /\ left = [events |-> 0, reads |-> 0, writes |-> 0]
    /\ bridge = NoBridge
    /\ ClientInit
    /\ dry = NoDryRun
    /\ \E p \in Payloads :
          call = [fn |-> "NewDataFrame", pc |-> "input", p |-> p, frame |-> <<>>,
                  tag |-> 0, out |-> [panic |-> FALSE, data |-> <<>>, rest |-> <<>>]]

NextF ==
    \/ CodecEncode
    \/ CodecDecode

SpecF == InitF /\ [][NextF]_vars

\* ------------------------------------------------ iap-host.go, its callers
\* the target descriptors and reconnect arguments the URL builder is tried on
Descriptors ==
    [ProjectID : {"proj", "test-project"}, Zone : {"zone-a", "us-central1-a"},
     Instance : {"vm", "test-instance"}, Interface : {"nic0", "nic1"},
     Port : {"22", "8080"}]

ZoneOnly(z) == [ProjectID |-> "", Zone |-> z, Instance |-> "", Interface |-> "", Port |-> ""]

SessionNumbers == {0, 7, 12345}

AckCounts == {0, 9, 10, 67890}

NoURL == [scheme |-> "", host |-> "", path |-> "", query |-> <<>>]

URLCall(fn, h, s, ack) ==
    [fn |-> fn, pc |-> "input", h |-> h, sid |-> s, ack |-> ack, url |-> NoURL]

URLReturn(u) == call' = [call EXCEPT !.pc = "done", !.url = u]

\* host.ConnectURI() of iap-host.go
URLConnect ==
    /\ call.fn = "ConnectURI"
    /\ call.pc = "input"
    /\ URLReturn(ConnectURI(call.h))
    /\ UNCHANGED <<sessionVars, ctxDone, fault, bridge, clientVars, dry>>

\* host.ConnectURI() of the later revision
URLConnectLater ==
    /\ call.fn = "ConnectURI"
    /\ call.pc = "input"
    /\ \E decoded \in BOOLEAN : URLReturn(ConnectURILater(call.h, decoded))
    /\ UNCHANGED <<sessionVars, ctxDone, fault, bridge, clientVars, dry>>

\* host.ReconnectURI(sid, ack) of iap-host.go
URLReconnect ==
    /\ call.fn = "ReconnectURI"
    /\ call.pc = "input"
    /\ URLReturn(ReconnectURI(call.h, call.sid, call.ack))
    /\ UNCHANGED <<sessionVars, ctxDone, fault, bridge, clientVars, dry>>

\* host.ReconnectURI(sid, ack) of the later revision, the session id handed
\* over as its decimal text
URLReconnectLater ==
    /\ call.fn = "ReconnectURI"
    /\ call.pc = "input"
    /\ URLReturn(ReconnectURILater(call.h, FormatUint(call.sid), call.ack))
    /\ UNCHANGED <<sessionVars, ctxDone, fault, bridge, clientVars, dry>>

InitU ==
    /\ TunnelInit
    /\ left = [events |-> 0, reads |-> 0, writes |-> 0]
    /\ bridge = NoBridge
    /\ ClientInit
    /\ dry = NoDryRun
    /\ \/ \E h \in Descriptors : call = URLCall("ConnectURI", h, 0, 0)
       \/ \E z \in {"zone-a", "us-central1-a"}, s \in SessionNumbers, a \in AckCounts :
              call = URLCall("ReconnectURI", ZoneOnly(z), s, a)

NextU ==
    \/ URLConnect
    \/ URLConnectLater
    \/ URLReconnect
    \/ URLReconnectLater

SpecU == InitU /\ [][NextU]_vars

\* ------------------------------------------------------- tunnel.go DryRun
\* websocket.StatusNormalClosure, the status Close hands to t.ws.Close
StatusNormalClosure == 1000

\* IAPTunnelClient.DryRun: tunnel := NewIAPTunnel(...), and tunnel.DryRun is
\* entered; the tunnel is new and was never started
DryRunCall ==
    /\ Running
    /\ dry.pc = "off"
    /\ loopPc = "start"
    /\ dry' = [dry EXCEPT !.pc = "dial"]
    /\ UNCHANGED <<sessionVars, ctxDone, fault, bridge, clientVars, call>>

\* DryRun: connectOrReconnect, `if err != nil { return err }`
DryRunDial(outcome) ==
    /\ Running
    /\ dry.pc = "dial"
    /\ connectOrReconnect(outcome)
    /\ dry' = [dry EXCEPT !.dial = outcome,
                          !.attempts = @ + 1,
                          !.pc = IF outcome = "ok" THEN "read" ELSE "done",
                          !.result = IF outcome = "ok" THEN @ ELSE outcome]
    /\ UNCHANGED <<sid, incoming, sending, ready, closed, ctxDone, loopPc, writerHeld, dead,
                   wire, arrived, left, fault>>
    /\ UNCHANGED <<readerVars, writerVars>>
    /\ UNCHANGED <<bridge, clientVars, call>>

DryRunDialled == \E outcome \in DialOutcomes : DryRunDial(outcome)

\* mutant of DryRunAfterRead: a failed read is tried again
DryRunReadsAgain(ok) == IF ok THEN "close" ELSE "read"

\* DryRun: `if err != nil { return err }` after t.ws.Read
DryRunAfterRead(ok) == IF ok THEN "close" ELSE "done"

\* DryRun: _, _, err = t.ws.Read(ctx); the message is not looked at, and a
\* failed read leaves the connection closed
DryRunRead(ok) ==
    /\ Running
    /\ dry.pc = "read"
    /\ dry' = [dry EXCEPT !.read = IF ok THEN "ok" ELSE "error",
                          !.reads = @ + 1,
                          !.pc = DryRunAfterRead(ok),
                          !.result = IF ok THEN @ ELSE "read"]
    /\ dead' = IF ok THEN dead ELSE dead \cup {ws}
    /\ UNCHANGED <<ws, tunnelVars, closed, ctxDone, loopPc, writerHeld, dials, wire,
                   arrived, left, fault>>
    /\ UNCHANGED <<readerVars, writerVars>>
    /\ UNCHANGED <<bridge, clientVars, call>>

DryRunReadOver == \E ok \in BOOLEAN : DryRunRead(ok)

\* DryRun: t.Close(), which closes t.closed and the WebSocket with
\* StatusNormalClosure, and `return nil`
DryRunClose ==
    /\ Running
    /\ dry.pc = "close"
    /\ IF closed
       THEN /\ fault' = "close of closed channel"
            /\ UNCHANGED <<closed, dead, dry>>
       ELSE /\ closed' = TRUE
            /\ dead' = IF ws # NoConn THEN dead \cup {ws} ELSE dead
            /\ dry' = [dry EXCEPT !.pc = "done", !.result = "nil",
                                  !.status = IF ws # NoConn THEN StatusNormalClosure ELSE @]
            /\ UNCHANGED fault
    /\ UNCHANGED <<ws, tunnelVars, ctxDone, loopPc, writerHeld, dials, wire, arrived, left>>
    /\ UNCHANGED <<readerVars, writerVars>>
    /\ UNCHANGED <<bridge, clientVars, call>>

\* ------------------------------------- the client: DryRun and its Serves
NextD ==
    \/ DryRunCall
    \/ DryRunDialled
    \/ DryRunReadOver
    \/ DryRunClose
    \/ \E s \in Servers : ServeCall(s)
    \/ \E s \in Servers : ServeIsActive(s)
    \/ \E s \in Servers : ServeSetActive(s)
    \/ \E s \in Servers : ServeListen(s)
    \/ \E s \in Servers : ServeBound(s)
    \/ \E s \in Servers : ServeAccepted(s)
    \/ \E s \in Servers : ServeCloseLis(s)
    \/ \E s \in Servers : ServeUnset(s)
    \/ ClientClose

SpecD == InitS /\ [][NextD]_vars

\* ------------------------------- the read loop and session ids of any length
\* IncomingFrame.SID: the frame carries a 4-byte length N and N bytes of
\* session id, N = 0 included
SIDsAny == SIDs \cup {""}

SIDFrame(s) == Frame(RelayConnectSuccessSID, s, 0, 0, 0, 0)

\* start(): ws.Read returned a CONNECT_SUCCESS_SID message
LoopRecvSID ==
    /\ loopPc = "read"
    /\ \E s \in SIDsAny : LoopRecv(SIDFrame(s))

InitR ==
    /\ TunnelInit
    /\ bridge = NoBridge
    /\ ClientInit
    /\ NoCalls
    /\ left = [events |-> MaxEventsIO, reads |-> 0, writes |-> 0]

NextR ==
    \/ LoopDial
    \/ LoopRecvSID
    \/ LoopRecvControl
    \/ LoopRecvDataW
    \/ LoopReadError
    \/ LoopAckWriter
    \/ LoopAckSend
    \/ Close
    \/ CtxCancel

SpecR == InitR /\ [][NextR]_vars

\* ----------------------------------- the read loop on messages as received
SIDLen == 4
SIDHeaderLen == MessageTagLen + SIDLen

\* ws.Read returns the message from io.ReadAll, whose buffer starts with a
\* capacity of 512 bytes, zeroed by make
ReadAllCap == 512

MsgCap(m) == IF Len(m) > ReadAllCap THEN Len(m) ELSE ReadAllCap

Zeros(n) == [i \in 1..(IF n > 0 THEN n ELSE 0) |-> 0]

\* m[lo:hi] with hi within the capacity: a slice expression may extend a slice
\* beyond its length, and the bytes it gains are the zeroes of the buffer
Reslice(m, lo, hi) == SubSeq(m \o Zeros(hi - Len(m)), lo + 1, hi)

\* binary.BigEndian.Uint64
Uint64(b) == Uint32(SubSeq(b, 1, 4)) * 65536 * 65536 + Uint32(SubSeq(b, 5, 8))

\* string(bytes) of a session id
SidText(b) ==
    CASE b = <<>> -> ""
      [] b = <<83, 49>> -> "S1"
      [] b = <<83, 50>> -> "S2"
      [] OTHER -> "other"

\* NewIncomingFrame(msg) and the accessor handleFrame calls for the tag of
\* the message: Type, then SID, ACK or Data. None of them checks the length
\* of the message; a slice expression panics when its bounds leave the
\* capacity or its low bound exceeds its high bound.
RawDecode(m) ==
    LET tag == Uint16(Reslice(m, 0, MessageTagLen))
        declared == Uint32(Reslice(m, MessageTagLen, DataMessageHeaderLen))
        unknown == Frame(tag, "", 0, 0, 0, 0)
    IN  CASE tag = RelayConnectSuccessSID ->
                 IF SIDHeaderLen + declared > MsgCap(m)
                 THEN [panic |-> TRUE, frame |-> unknown]
                 ELSE [panic |-> FALSE,
                       frame |-> Frame(tag, SidText(Reslice(m, SIDHeaderLen,
                                                            SIDHeaderLen + declared)),
                                       0, 0, 0, 0)]
          [] tag \in {RelayReconnectSuccessACK, RelayACK} ->
                 [panic |-> FALSE,
                  frame |-> Frame(tag, "", Uint64(Reslice(m, MessageTagLen, ACKHeaderLen)),
                                  0, 0, 0)]
          [] tag = RelayData ->
                 IF Len(m) < DataMessageHeaderLen
                    \/ declared > Len(m) - DataMessageHeaderLen
                 THEN [panic |-> TRUE, frame |-> unknown]
                 ELSE [panic |-> FALSE,
                       frame |-> Frame(tag, "", 0, declared,
                                       Len(m) - DataMessageHeaderLen - declared, arrived)]
          [] OTHER -> [panic |-> FALSE, frame |-> unknown]

\* start(): ws.Read returned the message m and an accessor of the frame
\* panicked in the goroutine of the read loop
LoopRecvPanic ==
    /\ Running
    /\ loopPc = "read"
    /\ ws \notin dead
    /\ ~LoopMustStop
    /\ CanAct
    /\ left' = Spend
    /\ fault' = "slice bounds out of range"
    /\ UNCHANGED <<ws, tunnelVars, closed, ctxDone, loopPc, writerHeld, dead, dials, wire,
                   arrived>>
    /\ UNCHANGED <<readerVars, writerVars>>
    /\ UNCHANGED outsideVars

\* start(): ws.Read returned the message m
LoopRecvRaw(m) ==
    IF RawDecode(m).panic /\ ~LoopMustStop
    THEN LoopRecvPanic
    ELSE LoopRecv(RawDecode(m).frame)

\* DATA messages with trailing bytes: three payload bytes followed by the
\* bytes of an ACK frame, and an empty payload followed by two bytes
TrailingMessages ==
    {<<0, 4, 0, 0, 0, 3, 9, 9, 9, 0, 7, 0, 0, 0, 0, 0, 0, 0, 100>>,
     <<0, 4, 0, 0, 0, 0, 0, 4>>}

\* the messages the relay sends: well-formed ones of each kind, messages cut
\* short, and DATA and CONNECT_SUCCESS_SID messages that declare more bytes
\* than they carry
RawMessages ==
    TrailingMessages \cup
    {<<0, 1, 0, 0, 0, 2, 83, 49>>,
     <<0, 4, 0, 0, 0, 1, 9>>,
     <<0, 7, 0, 0, 0, 0, 0, 0, 0, 100>>,
     <<0, 2, 0, 0, 0, 0, 0, 0, 0, 100>>,
     <<0, 9>>,
     <<>>,
     <<4>>,
     <<0, 1>>,
     <<0, 1, 0, 0, 0, 2, 83>>,
     <<0, 1, 0, 0, 2, 0, 83, 49>>,
     <<0, 4>>,
     <<0, 4, 0, 0, 0, 2, 9>>,
     <<0, 7, 0, 0, 0, 0, 0, 0, 1>>,
     <<0, 2, 0, 0>>}

LoopRecvRawAny == \E m \in RawMessages : LoopRecvRaw(m)

InitM ==
    /\ TunnelInit
    /\ bridge = NoBridge
    /\ ClientInit
    /\ NoCalls
    /\ left = [events |-> MaxEventsM, reads |-> 0, writes |-> 0]

NextM ==
    \/ LoopDial
    \/ LoopRecvRawAny
    \/ LoopReadError
    \/ Close
    \/ CtxCancel

SpecM == InitM /\ [][NextM]_vars

\* ------------------------------------- one Serve and the bridge it spawns
\* the Serve invocation of this specification
Supervisor == 1

\* Serve: `go c.processConn(ctx, conn)` for the first connection accepted; the
\* goroutine creates its tunnel and starts it
BridgeSpawn ==
    /\ Running
    /\ bridge.pc = "off"
    /\ accepts.spawned > 0
    /\ bridge' = BridgeStarted
    /\ UNCHANGED <<sessionVars, callVars, ctxDone, fault, clientVars>>

\* the goroutine of start() runs once processConn has called tunnel.Start
LoopDialV ==
    /\ bridge.pc # "off"
    /\ LoopDial

InitV ==
    /\ TunnelInit
    /\ left = [events |-> MaxEventsB, reads |-> MaxReads, writes |-> MaxWrites]
    /\ bridge = NoBridge
    /\ active = FALSE
    /\ lis = NoListener
    /\ serve = [s \in Servers |-> [pc |-> "idle", result |-> "none"]]
    /\ accepts = [left |-> MaxAcceptsV, fails |-> 0, spawned |-> 0]
    /\ NoCalls

NextV ==
    \/ ServeCall(Supervisor)
    \/ ServeIsActive(Supervisor)
    \/ ServeSetActive(Supervisor)
    \/ ServeListen(Supervisor)
    \/ ServeBound(Supervisor)
    \/ ServeAccepted(Supervisor)
    \/ ServeCloseLis(Supervisor)
    \/ ServeUnset(Supervisor)
    \/ ClientClose
    \/ BridgeSpawn
    \/ LoopDialV
    \/ LoopRecvControl
    \/ LoopRecvDataB
    \/ LoopReadError
    \/ CtxCancel
    \/ BridgeSelect
    \/ PumpRead
    \/ ReadReady
    \/ ReadRecv
    \/ PumpToLocal
    \/ PumpFromLocal
    \/ WriteWriter
    \/ WriteSent
    \/ PumpFromLocalResult
    \/ PumpLocalEnd
    \/ BridgeWait
    \/ BridgeConnClose
    \/ BridgeTunnelClose
    \/ BridgeReturn

SpecV == InitV /\ [][NextV]_vars

\* ------------------------------------------------------------------ claims
\* the ACK frames written so far, in order
AckFrames == SelectSeq(wire, LAMBDA w : w.frame.tag = RelayACK)

\* a step of handleData that enqueued a payload
DataProcessed == Len(incoming') = Len(incoming) + 1

\* a step in which Send of the ACK frame returned
AckSendOver == loopPc \in {"ackWriter", "ackWrite"} /\ loopPc' = "read"

\* a step that wrote an ACK frame
AckWritten == Len(wire') = Len(wire) + 1 /\ Last(wire').frame.tag = RelayACK

\* a step of the read loop that dialled again after a read error
ReconnectDial == loopPc = "read" /\ Len(dials') = Len(dials) + 1

\* the parts of the ACK cadence that do not depend on the outcome of Send: an
\* ACK is due exactly above the threshold, carries bytes_received, and is
\* written by nothing but handleData
AckCadenceCommon ==
    /\ DataProcessed =>
          (loopPc' = "ackWriter"
             <=> totalBytesReceived' - totalBytesReceivedAcked' > 2 * MaxMessageSize)
    /\ AckWritten =>
          /\ loopPc = "ackWrite"
          /\ Last(wire').frame.val = totalBytesReceived
          /\ Last(wire').conn = ws
          /\ totalBytesReceived - totalBytesReceivedAcked > 2 * MaxMessageSize
    /\ (loopPc' \in {"ackWriter", "ackWrite"} /\ loopPc = "read") => DataProcessed

\* C1 as stated: an ACK frame is sent right after a DATA frame exactly when
\* bytes_received - bytes_acked_to_peer > 2 x MaxMessageSize, it carries
\* bytes_received, bytes_acked_to_peer is then set to bytes_received, and no
\* ACK frame is sent at any other time.
C1_AckCadenceAsStated ==
    [][/\ AckCadenceCommon
       /\ AckSendOver => (AckWritten /\ totalBytesReceivedAcked' = totalBytesReceived)]_vars

\* C1 amended: an ACK send is attempted right after a DATA frame exactly when
\* bytes_received - bytes_acked_to_peer > 2 x MaxMessageSize; the frame carries
\* bytes_received; when the send succeeds the frame is written and
\* bytes_acked_to_peer is set to bytes_received, when it fails no frame is
\* written and bytes_acked_to_peer keeps its value; no ACK frame is written at
\* any other time.
C1_AckCadence ==
    [][/\ AckCadenceCommon
       /\ AckSendOver =>
             \/ AckWritten /\ totalBytesReceivedAcked' = totalBytesReceived
             \/ wire' = wire /\ totalBytesReceivedAcked' = totalBytesReceivedAcked
       /\ AckWritten => totalBytesReceivedAcked' = totalBytesReceived]_vars

\* C1 witness: two frames of MaxMessageSize gave no ACK, a third of one byte
\* gave the ACK 2 x MaxMessageSize + 1
C1_Witness ==
    /\ Len(incoming) = 3
    /\ incoming[1].len = MaxMessageSize
    /\ incoming[2].len = MaxMessageSize
    /\ incoming[3].len = 1
    /\ Len(wire) = 1
    /\ wire[1].frame.tag = RelayACK
    /\ wire[1].frame.val = 2 * MaxMessageSize + 1
    /\ totalBytesReceivedAcked = 2 * MaxMessageSize + 1

\* C2: a reconnect dial leaves bytes_received, bytes_acked_to_peer and
\* bytes_confirmed_by_peer as they were before the read error.
C2_CountersSurviveReconnect ==
    [][ReconnectDial =>
          UNCHANGED <<totalBytesReceived, totalBytesReceivedAcked, totalBytesConfirmed>>]_vars

\* C3: the dial after a read error goes to /v4/reconnect with sid = the
\* captured session id and ack = the current bytes_received.
C3_ReconnectUsesCapturedState ==
    [][ReconnectDial =>
          /\ Last(dials').path = ReconnectPath
          /\ HasParam(Last(dials'), "sid", sid)
          /\ HasParam(Last(dials'), "ack", FormatUint(totalBytesReceived))]_vars

\* C4: the values of the ACK frames written in a session, reconnects included,
\* never decrease.
C4_AckMonotonic ==
    \A i, j \in 1..Len(AckFrames) :
        i < j => AckFrames[i].frame.val <= AckFrames[j].frame.val

\* C5: bytes_acked_to_peer <= bytes_received in every reachable state.
C5_AckedAtMostReceived == totalBytesReceivedAcked <= totalBytesReceived

\* C5 witness: after a reconnect, an ACK was sent and more data received
C5_Witness ==
    /\ Len(dials) = 2
    /\ totalBytesReceivedAcked > 0
    /\ totalBytesReceived > totalBytesReceivedAcked

\* the payloads still queued follow one another in the arrival stream, from
\* position `at` on
RECURSIVE Contiguous(_, _)
Contiguous(q, at) ==
    IF q = <<>> THEN at = arrived
    ELSE Head(q).start = at /\ Contiguous(Tail(q), at + Head(q).len)

\* C6: the bytes successive Read calls return are, in order and without gap or
\* repetition, a prefix of the DATA payload bytes in arrival order: each call
\* returns the bytes that follow the ones returned before it, then comes the
\* residual of the payload read in part, then the queued payloads in arrival
\* order up to the last byte that arrived.
C6_InboundFIFO ==
    /\ reads.data.len = reads.n
    /\ reads.n > 0 => reads.data.start + reads.n = reads.delivered
    /\ msgBuffer.len > 0 => msgBuffer.start = reads.delivered
    /\ Contiguous(incoming, reads.delivered + msgBuffer.len)

\* C6 witness: after a reconnect, with bytes of an earlier dial returned
\* before, a Read returned the residual of a payload of the new connection
C6_Witness ==
    /\ Len(dials) = 2
    /\ totalBytesReceived > 0
    /\ totalBytesReceived < arrived
    /\ reads.residual
    /\ reads.n > 0
    /\ reads.data.start > arrived - totalBytesReceived

\* C7: no Read call returns n > 0 bytes while ready_signal has not fired.
C7_ReadyOrdering == reads.n > 0 => reads.ready

\* C7 witness: a Read that began before CONNECT_SUCCESS_SID, with payloads
\* already queued, returned bytes once ready_signal had fired
C7_Witness == reads.early /\ reads.n > 0 /\ reads.ready

\* the DATA frames written for the payload p of a Write call
FramesOf(p) ==
    SelectSeq(wire, LAMBDA w : /\ w.frame.tag = RelayData
                               /\ w.frame.payload.start >= p.start
                               /\ w.frame.payload.start < p.start + p.len)

\* ceil(n / MaxMessageSize)
FrameCount(n) == (n + MaxMessageSize - 1) \div MaxMessageSize

\* the payload of the k-th frame of a fragmented payload p
Fragment(p, k) ==
    [start |-> p.start + (k - 1) * MaxMessageSize,
     len |-> IF k < FrameCount(p.len) THEN MaxMessageSize
             ELSE p.len - (k - 1) * MaxMessageSize]

\* Send of a DATA frame faulted
SendFaulted == fault = "slice bounds out of range"

\* C8: a Write of n bytes whose sends succeed writes ceil(n / MaxMessageSize)
\* DATA frames, all of MaxMessageSize payload bytes but the last, which
\* carries the remainder, and returns (n, nil).
C8_Fragmentation ==
    /\ ~SendFaulted
    /\ (writes.count > 0 /\ writes.err = "nil") =>
          LET fs == FramesOf(writes.p)
          IN  /\ writes.n = writes.p.len
              /\ Len(fs) = FrameCount(writes.p.len)
              /\ \A i \in 1..Len(fs) : fs[i].frame.payload = Fragment(writes.p, i)

\* C9: a Write of 1..MaxMessageSize bytes builds one DATA frame of n + 6 wire
\* bytes, sends it without faulting and returns (n, nil) when the write
\* succeeds.
C9_ShortPayloadSent ==
    /\ SendFaulted => wr.p.len > MaxMessageSize
    /\ (writes.count > 0 /\ writes.p.len <= MaxMessageSize /\ writes.err = "nil") =>
          LET fs == FramesOf(writes.p)
          IN  /\ writes.n = writes.p.len
              /\ Len(fs) = 1
              /\ fs[1].frame.size = writes.p.len + DataMessageHeaderLen

\* C10: on each WebSocket at most one task is inside a frame send, and a task
\* inside a send holds the connection's writer from conn.Writer to the end of
\* its write.
C10_WriterSerialized ==
    /\ ~(loopPc = "ackWrite" /\ wr.pc = "write" /\ wr.conn = ws)
    /\ loopPc = "ackWrite" => writerHeld[ws] = "loop"
    /\ wr.pc = "write" => writerHeld[wr.conn] = "pump"

\* C10 witness: the read loop, with an ACK to send, waits for the writer the
\* pump holds for a DATA frame on the same WebSocket
C10_Witness ==
    /\ loopPc = "ackWriter"
    /\ wr.pc = "write"
    /\ wr.conn = ws
    /\ ws \notin dead

\* a step of the read loop that called connectOrReconnect after a read error:
\* it dialled, or failed before or in the dial
ReconnectAttempt ==
    loopPc = "read" /\ (Len(dials') = Len(dials) + 1 \/ loopPc' = "failed")

\* C11 as stated: on a read error the loop attempts a reconnect dial exactly
\* when the error is not a normal closure, sid is captured and the context is
\* not cancelled.
C11_ReconnectPreconditionAsStated ==
    [][\A normal \in BOOLEAN, outcome \in DialOutcomes :
          LoopReadErr(normal, outcome) =>
              (ReconnectAttempt <=> (~normal /\ sid # "" /\ ~ctxDone))]_vars

\* C11 amended: on a read error the loop attempts a reconnect dial exactly
\* when the error is not a normal closure, sid is captured, the context is not
\* cancelled and the tunnel has not been closed; a read error before any
\* CONNECT_SUCCESS_SID ends the loop with no dial attempt.
C11_ReconnectPrecondition ==
    [][\A normal \in BOOLEAN, outcome \in DialOutcomes :
          LoopReadErr(normal, outcome) =>
              /\ ReconnectAttempt <=> (~normal /\ sid # "" /\ ~ctxDone /\ ~closed)
              /\ sid = "" => (loopPc' = "done" /\ dials' = dials)]_vars

\* C11 witness: a read error on a tunnel with a session id, a live context and
\* no Close was followed by a second dial
C11_Witness ==
    /\ Len(dials) = 2
    /\ sid # ""
    /\ ~ctxDone
    /\ ~closed
    /\ loopPc = "read"
    /\ arrived = 0

\* C12: a read error triggers at most one dial; when the reconnect fails the
\* read loop ends in Failed, and from then on it dials no more and reads no
\* more from the WebSocket.
C12_ReconnectAttemptLimit ==
    [][/\ \A normal \in BOOLEAN, outcome \in DialOutcomes :
             (LoopReadErr(normal, outcome) /\ ReconnectAttempt /\ outcome # "ok")
                 => loopPc' = "failed"
       /\ loopPc = "read" => Len(dials') <= Len(dials) + 1
       /\ loopPc = "failed" =>
             /\ loopPc' = "failed"
             /\ UNCHANGED <<ws, dials, sid, arrived, incoming, totalBytesReceived,
                            totalBytesReceivedAcked, totalBytesConfirmed>>
             /\ left'.events = left.events]_vars

\* C12 witness: a reconnect dial failed and the loop is over
C12_Witness ==
    /\ loopPc = "failed"
    /\ Len(dials) = 2
    /\ ws = NoConn
    /\ sid # ""

\* C18: ready_signal fires at most once: once t.ready is closed it stays
\* closed, and no CONNECT_SUCCESS_SID frame, a repeated one or one received
\* after a reconnect, closes it again or faults.
C18_ReadyAtMostOnce ==
    [][/\ ready => ready'
       /\ fault' # "close of closed channel"
       /\ (ready /\ sid' # sid) => (ready' /\ fault' = fault /\ loopPc' = "read")]_vars

\* C18 witness: after CONNECT_SUCCESS_SID, a read error and a reconnect, a
\* third event left the session id "S2" with ready_signal fired
C18_Witness ==
    /\ ready
    /\ Len(dials) = 2
    /\ sid = "S2"
    /\ left.events = MaxEvents - 3
    /\ fault = ""
    /\ loopPc = "read"

\* C20: every Read call that returns a nil error returns n >= 1.
C20_NoZeroByteRead == (reads.count > 0 /\ reads.err = "nil") => reads.n >= 1

\* C19: closed_signal fires at most once: once t.closed is closed it stays
\* closed, and a further Close completes without closing it again.
C19_ClosedAtMostOnce ==
    [][closed => (closed' /\ fault' # "close of closed channel")]_vars

\* a pump of the bridge has returned
PumpReturned == bridge.toLocal = "returned" \/ bridge.toTunnel = "returned"

\* C13: as soon as either pump has returned the bridge goes on to close the
\* tunnel and the local connection: it can leave syncConnections whether or
\* not the other pump has returned.
C13_BridgeTeardown ==
    (Running /\ bridge.pc = "sync" /\ PumpReturned) => ENABLED BridgeWait

\* C14: when the tunnel's first dial (or the token acquisition before it) has
\* failed, the bridge goes on to close the local connection and return
\* without the context being cancelled: it is not held at its select.
C14_DialFailureReachesBridge ==
    (Running /\ loopPc = "failed" /\ ~ready /\ ~ctxDone /\ bridge.pc = "select")
        => ENABLED BridgeSelect

\* a Serve invocation that has passed the active check and has not yet
\* released the listener
Serving(s) == serve[s].pc \in {"setActive", "listen", "bind", "accept", "closeLis"}

\* C15: of two Serve invocations on one client at most one goes on to bind
\* the listener and run the accept loop; one invoked while another is active
\* returns "already active" and changes nothing.
C15_SingleActiveServe ==
    /\ Cardinality({s \in Servers : Serving(s)}) <= 1
    /\ \A s \in Servers :
          serve[s].result = "already active" => serve[s].pc = "done"

\* a step in which l.lis.Accept returned a transient error
AcceptFailed == accepts'.fails = accepts.fails + 1

\* a step in which l.lis.Accept returned a connection
AcceptedConn == accepts'.spawned = accepts.spawned + 1

\* a step in which l.lis.Accept returned a listener-closed error
AcceptClosed ==
    /\ accepts'.left = accepts.left - 1
    /\ accepts'.fails = accepts.fails
    /\ accepts'.spawned = accepts.spawned

\* a step in which a Serve left its accept loop with result r
ServeReturns(r) ==
    \E s \in Servers :
        /\ serve[s].pc = "accept"
        /\ serve'[s] = [pc |-> "closeLis", result |-> r]

\* C16 as stated: the third consecutive transient failure of Accept makes
\* Serve return the wrapped error.
C16_RetryBoundAsStated ==
    [][(AcceptFailed /\ accepts'.fails = 3) => ServeReturns("accept error")]_vars

\* C16 amended: Accept retries after each of three consecutive transient
\* failures, and Serve returns the wrapped error on the fourth; a failure that
\* is retried leaves Serve in its loop, and a successful accept resets the
\* consecutive-failure count to zero and leaves Serve in its loop.
C16_RetryBound ==
    [][/\ AcceptFailed =>
             /\ ServeReturns("accept error") <=> accepts'.fails > 3
             /\ accepts'.fails <= 3 => (serve' = serve /\ lis'.counter = accepts'.fails)
       /\ AcceptedConn => (serve' = serve /\ lis'.counter = 0)]_vars

\* C16 witness: a failure was retried, a connection was accepted, and four
\* failures in a row then ended Serve with the wrapped error
C16_Witness ==
    /\ accepts.left = MaxAccepts - 6
    /\ accepts.fails = 4
    /\ accepts.spawned = 1
    /\ lis.counter = 3
    /\ \E s \in Servers : serve[s].result = "accept error"

\* C17: a listener-closed error of Accept makes Serve return nil at once,
\* with no retry, whatever the retry count is.
C17_ListenerClosedCleanExit ==
    [][AcceptClosed => (ServeReturns("nil") /\ lis'.counter = lis.counter)]_vars

\* C17 witness: with two failures counted, the listener was closed and Serve
\* returned nil
C17_Witness ==
    /\ lis.counter = 2
    /\ ~lis.open
    /\ \E s \in Servers : serve[s].result = "nil"

\* C21: once closed_signal has fired, a Read call that is pending can return
\* end-of-stream: it is at the select of Read, where the closed case is taken,
\* and not held at the receive from the inbound queue.
C21_EndOfStreamOnClose ==
    (Running /\ closed /\ rd.pc # "idle") => ENABLED ReadClosed

\* the read loop is neither before its first dial nor over
LoopAlive == loopPc \notin {"start", "done", "failed"}

\* C22: after a local Close or a context cancellation the read loop, wherever
\* it is, can take its next step towards its end: the pending WebSocket read
\* returns, or the step it is in completes; it is never held, also not at the
\* send of a payload to the full inbound queue.
C22_ReadLoopShutdown ==
    (Running /\ LoopMustStop /\ LoopAlive) =>
        ENABLED (LoopRecvSIDQ \/ LoopRecvDataQ \/ LoopReadErrorQ \/ LoopEnqueue)

\* C23: for every payload p of at most MaxMessageSize bytes, decoding the DATA
\* frame built from p yields tag 0x0004, payload p and an empty remainder.
C23_DataFrameRoundTrip ==
    (call.fn = "NewDataFrame" /\ call.pc = "decoded") =>
        /\ Len(call.p) <= MaxMessageSize
        /\ call.tag = 4
        /\ ~call.out.panic
        /\ call.out.data = call.p
        /\ call.out.rest = <<>>

\* C23 witness: a payload of MaxMessageSize bytes went through NewDataFrame,
\* a frame of MaxMessageSize + 6 bytes, and the decoder
C23_Witness ==
    /\ call.fn = "NewDataFrame"
    /\ call.pc = "decoded"
    /\ Len(call.p) = MaxMessageSize
    /\ Len(call.frame) = MaxMessageSize + 6
    /\ call.p[1] = 3
    /\ call.out.data[300] = 46

\* C24: for every target descriptor with all five fields set, ConnectURI
\* returns scheme wss, host tunnel.cloudproxy.app, path /v4/connect and the
\* query instance, interface, port, project, zone: the five keys, each once, in
\* alphabetical order, with the descriptor's values, and no other key.
C24_ConnectURLCanonical ==
    (call.fn = "ConnectURI" /\ call.pc = "done") =>
        /\ call.url.scheme = "wss"
        /\ call.url.host = "tunnel.cloudproxy.app"
        /\ call.url.path = "/v4/connect"
        /\ Len(call.url.query) = 5
        /\ call.url.query = << <<"instance", call.h.Instance>>,
                               <<"interface", call.h.Interface>>,
                               <<"port", call.h.Port>>,
                               <<"project", call.h.ProjectID>>,
                               <<"zone", call.h.Zone>> >>

\* the number a sequence of decimal digits writes
RECURSIVE DecimalValue(_)
DecimalValue(ds) ==
    IF ds = <<>> THEN 0 ELSE 10 * DecimalValue(SubSeq(ds, 1, Len(ds) - 1)) + ds[Len(ds)]

\* ds is n in decimal: digits only, no leading zero
IsDecimalOf(ds, n) ==
    /\ Len(ds) >= 1
    /\ \A i \in 1..Len(ds) : ds[i] \in 0..9
    /\ Len(ds) > 1 => ds[1] # 0
    /\ DecimalValue(ds) = n

\* C25: for any session id s, acknowledged count a and zone z, ReconnectURI
\* returns wss://tunnel.cloudproxy.app/v4/reconnect with the query ack = a in
\* decimal, sid = s, zone = z: exactly these three keys, in this order; sid
\* 12345, ack 67890 and zone us-central1-a give
\* ack=67890&sid=12345&zone=us-central1-a.
C25_ReconnectURLCanonical ==
    (call.fn = "ReconnectURI" /\ call.pc = "done") =>
        LET q == call.url.query
        IN  /\ call.url.scheme = "wss"
            /\ call.url.host = "tunnel.cloudproxy.app"
            /\ call.url.path = "/v4/reconnect"
            /\ Len(q) = 3
            /\ q[1][1] = "ack"
            /\ IsDecimalOf(q[1][2], call.ack)
            /\ q[2][1] = "sid"
            /\ IsDecimalOf(q[2][2], call.sid)
            /\ q[3] = <<"zone", call.h.Zone>>
            /\ (call.sid = 12345 /\ call.ack = 67890 /\ call.h.Zone = "us-central1-a") =>
                   q = << <<"ack", <<6, 7, 8, 9, 0>> >>, <<"sid", <<1, 2, 3, 4, 5>> >>,
                          <<"zone", "us-central1-a">> >>

\* the frames the relay may send in the writer specification
FramesW == ControlFrames \cup DataFrames({MaxMessageSize})

\* C26: a frame the read loop handles is handled by its tag: 0x0001 captures
\* the session id and fires ready_signal, 0x0002 and 0x0007 set
\* bytes_confirmed_by_peer, 0x0004 enqueues the payload; a frame of any other
\* tag leaves sid, the three counters, the inbound queue and both signals
\* unchanged, raises no fault, and the read loop goes on to its next read.
C26_TagDispatch ==
    [][\A f \in FramesW :
          (LoopRecv(f) /\ ~LoopMustStop) =>
              /\ Type(f) = 1 =>
                    (sid' = f.sid /\ ready' /\ UNCHANGED <<incoming, totalBytesConfirmed>>)
              /\ Type(f) \in {2, 7} =>
                    (totalBytesConfirmed' = f.ack /\ UNCHANGED <<sid, ready, incoming>>)
              /\ Type(f) = 4 =>
                    /\ incoming' = Append(incoming, [start |-> f.at, len |-> f.len])
                    /\ UNCHANGED <<sid, ready, totalBytesConfirmed>>
              /\ Type(f) \notin {1, 2, 4, 7} =>
                    /\ UNCHANGED <<sid, totalBytesReceived, totalBytesReceivedAcked,
                                   totalBytesConfirmed, incoming, ready, closed, fault>>
                    /\ loopPc' = "read"]_vars

\* C26 witness: in Opened, a DATA frame and a frame of unknown tag were
\* received: two events, one payload queued, nothing else changed, and the
\* loop is at its next read
C26_Witness ==
    /\ left.events = MaxEventsW - 2
    /\ Len(incoming) = 1
    /\ sid = ""
    /\ ~ready
    /\ totalBytesConfirmed = 0
    /\ dead = {}
    /\ Len(dials) = 1
    /\ loopPc = "read"

\* what DryRun returns, by the outcome of its dial and of its read
DryRunResult ==
    IF dry.dial # "ok" THEN dry.dial
    ELSE IF dry.read # "ok" THEN "read" ELSE "nil"

\* the parts of C27 that do not depend on what counts as a dial
DryRunCommon ==
    /\ dry.reads <= 1
    /\ Len(dials) <= 1
    /\ dry.pc = "done" =>
          /\ dry.attempts = 1
          /\ dry.reads = (IF dry.dial = "ok" THEN 1 ELSE 0)
          /\ dry.result = DryRunResult
          /\ dry.result = "nil" =>
                (closed /\ ws \in dead /\ dry.status = 1000)
    /\ fault # "close of closed channel"

\* C27 as stated: DryRun performs exactly one dial and, if the dial succeeds,
\* exactly one WebSocket read; when both succeed it closes the WebSocket with
\* status 1000 and returns no error, when the dial or the read fails it
\* returns that error.
C27_DryRunAsStated ==
    /\ DryRunCommon
    /\ dry.pc = "done" => Len(dials) = 1

\* C27 amended: DryRun makes exactly one connect attempt, which dials once
\* unless acquiring the token fails, and then DryRun returns that error with no
\* dial; if the dial succeeds it performs exactly one WebSocket read; when
\* both succeed it closes the WebSocket with status 1000 and returns no error,
\* when the dial or the read fails it returns that error; no step of DryRun
\* touches the listener or the active flag of the client.
C27_DryRun ==
    /\ [](/\ DryRunCommon
          /\ dry.pc = "done" => Len(dials) = (IF dry.dial = "token" THEN 0 ELSE 1))
    /\ [][dry' # dry => UNCHANGED <<lis, active, serve, accepts>>]_vars

\* C27 witness: with a Serve accepting on the bound listener, a dry run
\* dialled, read one message, closed the WebSocket and returned nil
C27_Witness ==
    /\ dry.pc = "done"
    /\ dry.result = "nil"
    /\ dry.reads = 1
    /\ Len(dials) = 1
    /\ ws \in dead
    /\ lis.open
    /\ \E s \in Servers : serve[s].pc = "accept"

\* C28: whatever error a bridge or its tunnel runs into, Serve keeps
\* accepting: a Serve in its accept loop on an open listener takes the next
\* result of Accept.
C28_SupervisorIsolation ==
    (serve[Supervisor].pc = "accept" /\ lis.set /\ lis.open /\ accepts.left > 0)
        => ENABLED ServeAccepted(Supervisor)

\* C29 as stated: in every reachable state ready_signal has fired if and only
\* if sid is non-empty.
C29_ReadyIffSid == ready <=> (sid # "")

\* C29: a non-empty sid implies that ready_signal has fired, and nothing but
\* the processing of a CONNECT_SUCCESS_SID frame fires ready_signal or sets
\* sid: that step leaves ready_signal fired and sid equal to the session id of
\* the frame, which is empty when the frame carries a session id of length 0.
C29_ReadySignal ==
    /\ [](sid # "" => ready)
    /\ [][(ready' # ready \/ sid' # sid)
            => \E s \in SIDsAny :
                   /\ ~LoopMustStop
                   /\ LoopRecv(SIDFrame(s))
                   /\ ready'
                   /\ sid' = s]_vars

C29_Witness ==
    /\ ready
    /\ sid = ""
    /\ totalBytesReceived = MaxMessageSize
    /\ loopPc = "read"
    /\ left.events = MaxEventsIO - 3

\* C30: a DATA frame received before any CONNECT_SUCCESS_SID is processed like
\* any other DATA frame (its payload is appended to the queue and its length
\* added to totalBytesReceived) and leaves ready_signal unfired; while
\* ready_signal is unfired nothing is delivered and the first payload received
\* stays at the head of the queue; and the first bytes a Read delivers, which
\* it does once ready_signal has fired, are the first bytes of that payload.
C30_DataBeforeSID ==
    /\ [][\A f \in DataFrames(DataLens) :
              (~ready /\ ~LoopMustStop /\ LoopRecv(f))
                  => /\ incoming' = Append(incoming, Data(f)[1])
                     /\ totalBytesReceived' = totalBytesReceived + f.len
                     /\ ~ready']_vars
    /\ [](~ready => /\ reads.delivered = 0
                    /\ msgBuffer = EmptySlice
                    /\ incoming # <<>> => Head(incoming).start = 0)
    /\ []((reads.n > 0 /\ reads.delivered = reads.n)
            => reads.ready /\ reads.data.start = 0)

\* C30 witness: a payload was queued before the session id, a Read that began
\* then returned its first bytes after CONNECT_SUCCESS_SID, and they are the
\* first bytes delivered
C30_Witness ==
    /\ reads.early
    /\ reads.n = 5
    /\ reads.delivered = reads.n
    /\ reads.data = [start |-> 0, len |-> 5]
    /\ ~reads.residual
    /\ sid # ""
    /\ totalBytesReceived = 5 + MaxMessageSize
    /\ Len(incoming) = 1

\* C31: the tunnel sends no ACK frame while sid has not been captured,
\* whatever frames the relay sends: no write of an ACK frame begins or
\* completes in a state where sid is empty.
C31_NoAckBeforeSID ==
    [][sid = "" =>
           /\ loopPc' \notin {"ackWriter", "ackWrite"}
           /\ Len(wire') > Len(wire) => wire'[Len(wire')].frame.tag # RelayACK]_vars

\* the header a message of tag t needs
HeaderLen(t) ==
    CASE t = RelayConnectSuccessSID -> SIDHeaderLen
      [] t = RelayData -> DataMessageHeaderLen
      [] t \in {RelayReconnectSuccessACK, RelayACK} -> ACKHeaderLen
      [] OTHER -> MessageTagLen

\* a message shorter than its header, or a DATA or CONNECT_SUCCESS_SID message
\* whose declared length exceeds the bytes that follow the header
Malformed(m) ==
    \/ Len(m) < MessageTagLen
    \/ Len(m) < HeaderLen(Uint16(m))
    \/ /\ Uint16(m) \in {RelayConnectSuccessSID, RelayData}
       /\ Uint32(SubSeq(m, MessageTagLen + 1, DataMessageHeaderLen))
              > Len(m) - DataMessageHeaderLen

\* C32: a malformed message is discarded: receiving it leaves sid, the
\* counters, the inbound queue and ready_signal unchanged, and the read loop
\* goes on to its next read.
C32_MalformedDiscarded ==
    [][\A m \in RawMessages :
           (Malformed(m) /\ ~LoopMustStop /\ LoopRecvRaw(m))
               => /\ UNCHANGED <<sid, totalBytesReceived, totalBytesReceivedAcked,
                                 totalBytesConfirmed, incoming, ready>>
                  /\ loopPc' = "read"
                  /\ fault' = ""]_vars

\* C33: receiving a DATA message of declared length N followed by R > 0
\* trailing bytes appends one payload of exactly the N bytes that follow the
\* header to the queue and adds N to totalBytesReceived; the trailing bytes
\* change nothing else, whatever they spell: no second payload, no other
\* counter, no session id, and the loop goes on to its next read.
C33_ExtraBytes ==
    [][\A m \in TrailingMessages :
           LET N == Uint32(SubSeq(m, MessageTagLen + 1, DataMessageHeaderLen))
           IN  (~LoopMustStop /\ LoopRecvRaw(m))
                   => /\ incoming' = Append(incoming, [start |-> arrived, len |-> N])
                      /\ totalBytesReceived' = totalBytesReceived + N
                      /\ arrived' = arrived + N
                      /\ UNCHANGED <<sid, ready, totalBytesReceivedAcked,
                                     totalBytesConfirmed, fault>>
                      /\ loopPc' = "read"]_vars

\* C33 witness: the three payload bytes of the message with a trailing ACK
\* frame are queued and counted, and nothing was confirmed
C33_Witness ==
    /\ Len(incoming) = 2
    /\ incoming[1] = [start |-> 0, len |-> 3]
    /\ incoming[2] = [start |-> 3, len |-> 3]
    /\ totalBytesReceived = 6
    /\ totalBytesConfirmed = 0
    /\ loopPc = "read"
    /\ fault = ""

\* C34: when the send of a chunk of a Write fails, at conn.Writer or at
\* writer.Write, Write returns at once with the error and the sum of the
\* payload lengths of the chunks sent before it, and writes no further frame.
C34_PartialWrite ==
    [][(\/ wr.pc = "write" /\ WriteSend(FALSE)
        \/ wr.pc = "chunk" /\ ws # NoConn /\ WriterFails(ws) /\ WriteWriter)
           => /\ fault' = ""
              /\ wr'.pc = "idle"
              /\ writes'.count = writes.count + 1
              /\ writes'.err # "nil"
              /\ writes'.n = wr.totalSent
              /\ wr.totalSent % MaxMessageSize = 0
              /\ wr.totalSent < wr.p.len
              /\ wire' = wire]_vars

\* C35: totalBytesConfirmed never decreases, over received ACK and
\* RECONNECT_SUCCESS_ACK frames and over reconnects, and processing one of
\* these frames changes no other field of the session.
C35_ConfirmedMonotonic ==
    [][/\ totalBytesConfirmed' >= totalBytesConfirmed
       /\ \A t \in {RelayReconnectSuccessACK, RelayACK}, a \in AckVals :
              (~LoopMustStop /\ LoopRecv(Frame(t, "", a, 0, 0, 0)))
                  => /\ totalBytesConfirmed' = a
                     /\ UNCHANGED <<sid, totalBytesReceived, totalBytesReceivedAcked,
                                    incoming, ready>>]_vars

\* an ACK is owed: bytes_received exceeds bytes_acked_to_peer by more than the
\* threshold
AckOwed == totalBytesReceived - totalBytesReceivedAcked > 2 * MaxMessageSize

\* a step in which Send of the ACK frame returned an error
AckSendFailed == AckSendOver /\ ~AckWritten

\* C36: a failed send of an ACK frame leaves bytes_acked_to_peer, bytes_received
\* and the queue as they are and the read loop goes on to its next read; the
\* ACK stays owed until the next DATA frame, whose processing attempts an ACK
\* again.
C36_FailedAckKeepsAckPoint ==
    [][/\ AckSendFailed =>
              /\ UNCHANGED <<totalBytesReceivedAcked, totalBytesReceived, incoming>>
              /\ loopPc' = "read"
       /\ (AckOwed /\ loopPc = "read" /\ ~DataProcessed) => AckOwed'
       /\ (AckOwed /\ loopPc = "read" /\ DataProcessed) => loopPc' = "ackWriter"]_vars

====
